---- MODULE Spec2Model ----
(***************************************************************************)
(* A state-machine model of the Trendy Stocks Predictor backend:           *)
(*   - the Redis-backed cache with in-memory fallback (modules/cache.js),  *)
(*   - the market feed with its ordered sources (modules/marketFeed.js),   *)
(*   - the Agno client and the recommendation engine,                      *)
(*   - the session orchestration of backend/src/index.js.                  *)
(* Every asynchronous function is cut at its await points: one action per  *)
(* stretch of code that runs without yielding to the event loop.           *)
(***************************************************************************)
EXTENDS Integers, Sequences, FiniteSets, TLC

(***************************************************************************)
(* Bounds of the model.                                                    *)
(***************************************************************************)
\* Date.now() runs over 1..MaxTime (one unit is 30 s in the orchestrator).
MaxTime == 3
\* The largest ttlMs handed to setCached by the cache's own test driver.
MaxTtl == 2

(***************************************************************************)
(* JSON values.  Every cached value is a record of one shape: t is the     *)
(* JSON type, c and n carry the content (for a pick-set: the build that    *)
(* made it and results.length; for a news list: its length).               *)
(***************************************************************************)
JNull == [t |-> "null", c |-> 0, n |-> 0]
JZero == [t |-> "number", c |-> 0, n |-> 0]
JPicks(c, n) == [t |-> "picks", c |-> c, n |-> n]
JNews(n) == [t |-> "news", c |-> 0, n |-> n]

\* `x ?? null`: null (and undefined) become null, every other value, falsy or
\* not, is kept.
NullishCoalesce(x) == IF x.t = "null" THEN JNull ELSE x

\* JSON.stringify({ v: value }) and JSON.parse of that text.
JsonStringify(value) == [v |-> value]
JsonParse(raw) == raw

PicksKey == "last:session:picks"
NewsKey == "news:A"
NewsKeyB == "news:B"
Keys == {PicksKey, NewsKey, NewsKeyB}

\* ttlMs left out of the call (undefined).
Absent == -1
TtlInputs == {Absent} \cup (0 .. MaxTtl)
CacheValues == {JNull, JZero, JPicks(1, 1)}
\* The key the cache's own driver reads and writes.
DriverKeys == {PicksKey}

VARIABLES
  now,          \* Date.now()
  redis,        \* the ioredis client exists (REDIS_URL was set)
  useRedis,     \* cache.js: let useRedis
  memStore,     \* cache.js: const memStore = new Map()
  redisStore,   \* the keys held by the Redis server
  lastEvent,    \* history: the last event the ioredis client emitted
  lastSet,      \* history: per key, the last setCached that returned
  lastCall      \* history: the last setCached/getCached call

cacheVars == <<redis, useRedis, memStore, redisStore, lastEvent, lastSet, lastCall>>

VARIABLES
  SYMBOLS_CACHE,  \* marketFeed.js: let SYMBOLS_CACHE (<<>> stands for null)
  twelveKey,      \* process.env.TWELVEDATA_KEY is set
  feed            \* per call: its position, its locals and what it returned

feedVars == <<SYMBOLS_CACHE, twelveKey, feed>>

VARIABLES
  AGNO_ENABLED, \* agnoClient.js: const ENABLED (the AGNO_ENABLED variable is 'true')
  metrics,      \* agnoClient.js: let metrics
  eng           \* one buildEnhancedRecommendations call: position and locals

agnoVars == <<AGNO_ENABLED, metrics, eng>>

VARIABLES
  bootIst,          \* nowInIST() at the time the process started (now = 1)
  lastSnapshot,     \* index.js: let lastSnapshot
  lastSessionPicks, \* index.js: let lastSessionPicks
  job,              \* per pick-set request and for the EOD job: position and locals
  timer,            \* the position of the refreshSnapshot the 30 s timer started
  cycles            \* history: the number of requests and EOD jobs started

orchVars == <<bootIst, lastSnapshot, lastSessionPicks, job, timer, cycles>>

VARIABLES
  probe,        \* one call of a pure function: its arguments and what it returned
  nf,           \* one getNewsForSymbol call: position, locals and what it returned
  fan,          \* the news fan-out of one pick-set build: its promise and its items
  pl            \* one fetchFromYahoo call: its pool, its workers and its tasks

vars == <<now, cacheVars, feedVars, agnoVars, orchVars, probe, nf, fan, pl>>
\* What a step of the cache, of the market feed, of the recommendation engine
\* and of the orchestrator leaves alone.
exceptCache == <<feedVars, agnoVars, orchVars, probe, nf, fan, pl>>
exceptFeed == <<now, cacheVars, agnoVars, orchVars, probe, nf, fan, pl>>
exceptAgno == <<now, cacheVars, feedVars, orchVars, probe, nf, fan, pl>>
exceptOrch ==
  <<now, redis, useRedis, lastEvent, lastSet, lastCall, feedVars, agnoVars, probe, nf, fan,
    pl>>
exceptProbe == <<now, cacheVars, feedVars, agnoVars, orchVars, nf, fan, pl>>
exceptNews == <<now, cacheVars, feedVars, agnoVars, orchVars, probe, fan, pl>>
exceptFan ==
  <<now, redis, useRedis, lastEvent, lastSet, lastCall, feedVars, agnoVars, orchVars, probe, nf,
    pl>>
exceptPool == <<now, cacheVars, feedVars, agnoVars, orchVars, probe, nf, fan>>

NoEntry == [present |-> FALSE, value |-> JNull, expiresAt |-> 0]
NoRedisEntry == [present |-> FALSE, payload |-> JsonStringify(JNull), expireAt |-> 0]
NoSet == [done |-> FALSE, v |-> JNull, ttl |-> 0, at |-> 0, backend |-> "none"]
NoCall == [op |-> "none", key |-> PicksKey, backend |-> "none", evt |-> "none",
           result |-> JNull, threw |-> FALSE]

(***************************************************************************)
(* modules/cache.js                                                        *)
(***************************************************************************)
\* `useRedis && redis`: the call goes to the Redis client.
ServedByRedis == useRedis /\ redis
Backend == IF ServedByRedis THEN "redis" ELSE "mem"

\* `ttlMs || 0`
TtlOrZero(ttlMs) == IF ttlMs = Absent THEN 0 ELSE ttlMs

\* `ttlMs && ttlMs > 0`: SET with PX, else SET without expiry.
RedisHasPx(ttlMs) == ttlMs # Absent /\ ttlMs # 0 /\ ttlMs > 0

\* const expiresAt = Date.now() + (ttlMs || 0)
MemExpiresAt(t, ttlMs) == t + TtlOrZero(ttlMs)

\* Mutant of MemExpired: the entry outlives its ttl by one tick.
MemExpiredLate(entry, t) == entry.expiresAt # 0 /\ t > entry.expiresAt + 1
\* `entry.expiresAt && Date.now() > entry.expiresAt`
MemExpired(entry, t) == entry.expiresAt # 0 /\ t > entry.expiresAt

\* The Redis server drops a key set with PX once its time has passed.
RedisExpired(entry, t) == entry.expireAt # 0 /\ t > entry.expireAt

\* redis.get(key): the payload, or nil.
RedisGet(key) ==
  IF redisStore[key].present /\ ~RedisExpired(redisStore[key], now)
  THEN [hit |-> TRUE, raw |-> redisStore[key].payload]
  ELSE [hit |-> FALSE, raw |-> JsonStringify(JNull)]

\* What getCached(key) returns in the current state when no call throws.
GetCachedValue(key) ==
  IF ServedByRedis
  THEN IF ~RedisGet(key).hit THEN JNull
       ELSE NullishCoalesce(JsonParse(RedisGet(key).raw).v)
  ELSE IF ~memStore[key].present THEN JNull
       ELSE IF MemExpired(memStore[key], now) THEN JNull
       ELSE memStore[key].value

\* memStore after getCached(key): an expired entry is deleted on read.
MemStoreAfterGet(key) ==
  IF ~ServedByRedis /\ memStore[key].present /\ MemExpired(memStore[key], now)
  THEN [memStore EXCEPT ![key] = NoEntry]
  ELSE memStore

\* setCached(key, value, ttlMs) that returns: what it does to the stores.
StoreSet(key, value, ttlMs) ==
  IF ServedByRedis
  THEN /\ redisStore' = [redisStore EXCEPT ![key] =
              [present |-> TRUE, payload |-> JsonStringify(value),
               expireAt |-> IF RedisHasPx(ttlMs) THEN now + ttlMs ELSE 0]]
       /\ memStore' = memStore
  ELSE /\ memStore' = [memStore EXCEPT ![key] =
              [present |-> TRUE, value |-> value,
               expiresAt |-> MemExpiresAt(now, ttlMs)]]
       /\ redisStore' = redisStore

\* getCached(key) that returns: what it does to the stores.
StoreGet(key) ==
  /\ memStore' = MemStoreAfterGet(key)
  /\ redisStore' = redisStore

\* `await redis.set(...)` / `await redis.get(key)` rejects: the call throws and
\* neither store changes.
StoreThrows ==
  /\ ServedByRedis
  /\ memStore' = memStore
  /\ redisStore' = redisStore

\* setCached(key, value, ttlMs) that returns, with the history of the driver.
CacheSet(key, value, ttlMs) ==
  /\ StoreSet(key, value, ttlMs)
  /\ lastSet' = [lastSet EXCEPT ![key] =
         [done |-> TRUE, v |-> value, ttl |-> TtlOrZero(ttlMs), at |-> now,
          backend |-> Backend]]
  /\ lastCall' = [op |-> "set", key |-> key, backend |-> Backend, evt |-> lastEvent,
                  result |-> JNull, threw |-> FALSE]

\* getCached(key) that returns.
CacheGet(key) ==
  /\ StoreGet(key)
  /\ lastSet' = lastSet
  /\ lastCall' = [op |-> "get", key |-> key, backend |-> Backend, evt |-> lastEvent,
                  result |-> GetCachedValue(key), threw |-> FALSE]

\* setCached / getCached that throws.
CacheThrows(op, key) ==
  /\ StoreThrows
  /\ lastSet' = lastSet
  /\ lastCall' = [op |-> op, key |-> key, backend |-> Backend, evt |-> lastEvent,
                  result |-> JNull, threw |-> TRUE]

\* Mutant of OnRedisError: the handler logs and leaves the flag alone.
OnRedisErrorKeepingFlag == useRedis' = useRedis
\* redis.on('error', ...)
OnRedisError == useRedis' = FALSE

\* redis.on('ready', ...)
OnRedisReady == useRedis' = TRUE

CacheInit ==
  /\ redis \in BOOLEAN
  /\ useRedis = FALSE
  /\ memStore = [k \in Keys |-> NoEntry]
  /\ redisStore = [k \in Keys |-> NoRedisEntry]
  /\ lastEvent = "none"
  /\ lastSet = [k \in Keys |-> NoSet]
  /\ lastCall = NoCall

\* The client of cache.js calls setCached.
SetCached ==
  /\ \E k \in DriverKeys, v \in CacheValues, ttl \in TtlInputs : CacheSet(k, v, ttl)
  /\ UNCHANGED <<now, redis, useRedis, lastEvent, exceptCache>>

SetCachedThrows ==
  /\ \E k \in DriverKeys : CacheThrows("set", k)
  /\ UNCHANGED <<now, redis, useRedis, lastEvent, exceptCache>>

GetCached ==
  /\ \E k \in DriverKeys : CacheGet(k)
  /\ UNCHANGED <<now, redis, useRedis, lastEvent, exceptCache>>

GetCachedThrows ==
  /\ \E k \in DriverKeys : CacheThrows("get", k)
  /\ UNCHANGED <<now, redis, useRedis, lastEvent, exceptCache>>

RedisError ==
  /\ redis
  /\ OnRedisError
  /\ lastEvent' = "error"
  /\ UNCHANGED <<now, redis, memStore, redisStore, lastSet, lastCall, exceptCache>>

RedisReady ==
  /\ redis
  /\ OnRedisReady
  /\ lastEvent' = "ready"
  /\ UNCHANGED <<now, redis, memStore, redisStore, lastSet, lastCall, exceptCache>>

Tick ==
  /\ now < MaxTime
  /\ now' = now + 1
  /\ UNCHANGED <<cacheVars, exceptCache>>

(***************************************************************************)
(* modules/marketFeed.js: the universe and the snapshot sources.           *)
(***************************************************************************)
\* The longest list the registry or the bundled file hands back.
MaxUniverse == 2
\* UNIVERSE_CAP, scaled to the model's universe.
UNIVERSE_CAP == 2

Symbols == {"A", "B"}
\* The callers of getSnapshot / getPreviousSessionSnapshot that may overlap.
Calls == {"c1", "c2"}

\* queried lists the sources the call has asked, in order; yields gives, for
\* each source that has answered, the number of valid quotes it gave.
IdleCall == [kind |-> "none", pc |-> "idle", universe |-> <<>>, queried |-> <<>>,
             yields |-> <<>>, result |-> <<>>]

\* The order of the sources of getSnapshot.
SourceOrder == <<"yahoo", "nse", "twelvedata">>

\* Sequences over S of length lo..hi.
SeqsOf(S, lo, hi) == UNION {[1 .. n -> S] : n \in lo .. hi}

\* Array.from(new Set(symbols))
RECURSIVE Unique(_)
Unique(list) ==
  IF list = <<>> THEN <<>>
  ELSE LET rest == Unique(SubSeq(list, 1, Len(list) - 1))
           x == list[Len(list)]
       IN IF \E i \in 1 .. Len(rest) : rest[i] = x THEN rest ELSE Append(rest, x)

\* list.slice(0, UNIVERSE_CAP)
SliceCap(list) == SubSeq(list, 1, IF Len(list) < UNIVERSE_CAP THEN Len(list) ELSE UNIVERSE_CAP)

\* The small default list of getUniverseSymbols.
DefaultList == <<"A", "B">>

\* The rows a per-symbol source pushes: one for each universe position whose
\* fetch ended with finite open, ltp and pct_change.
RECURSIVE RowsOf(_, _, _)
RowsOf(universe, valid, src) ==
  IF universe = <<>> THEN <<>>
  ELSE LET n == Len(universe)
           before == RowsOf(SubSeq(universe, 1, n - 1), valid, src)
       IN IF n \in valid THEN Append(before, [symbol |-> universe[n], src |-> src])
          ELSE before

\* Deduplicate by symbol (keep first).
RECURSIVE Dedup(_)
Dedup(rows) ==
  IF rows = <<>> THEN <<>>
  ELSE LET rest == Dedup(SubSeq(rows, 1, Len(rows) - 1))
           r == rows[Len(rows)]
       IN IF \E i \in 1 .. Len(rest) : rest[i].symbol = r.symbol THEN rest
          ELSE Append(rest, r)

\* Mutant of Wins: a source needs two valid quotes to win.
WinsWithTwo(rows) == Len(rows) > 1
\* `Array.isArray(y) && y.length > 0`
Wins(rows) == Len(rows) > 0

\* Mutant of MockRows: the fallback hands back an empty list.
NoMockRows(universe) == <<>>
\* universe.map(genRow)
MockRows(universe) == [i \in 1 .. Len(universe) |-> [symbol |-> universe[i], src |-> "mock"]]

\* The first fetch of a call whose universe is known.
FirstSource(kind) == IF kind = "snapshot" THEN "yahoo" ELSE "yahoo-daily"

Fetching(c, kind, universe) ==
  [feed[c] EXCEPT !.kind = kind, !.pc = FirstSource(kind), !.universe = universe,
                  !.queried = <<FirstSource(kind)>>]

\* The call returns rows; the source that answered last gave n valid quotes.
Returned(c, rows, n) ==
  [feed[c] EXCEPT !.pc = "done", !.result = rows, !.yields = Append(@, n)]

\* getSnapshot() / getPreviousSessionSnapshot() is called: getUniverseSymbols
\* returns SYMBOLS_CACHE when it is set, and asks the registry otherwise.
FeedCall(c) ==
  /\ feed[c].pc = "idle"
  /\ \E kind \in {"snapshot", "previous"} :
       IF SYMBOLS_CACHE # <<>>
       THEN feed' = [feed EXCEPT ![c] = Fetching(c, kind, SYMBOLS_CACHE)]
       ELSE feed' = [feed EXCEPT ![c] = [feed[c] EXCEPT !.kind = kind, !.pc = "live"]]
  /\ UNCHANGED <<SYMBOLS_CACHE, twelveKey, exceptFeed>>

\* getUniverseSymbols, 1) live NIFTY 500: fetchNifty500Symbols has answered.
UniverseLive(c) ==
  /\ feed[c].pc = "live"
  /\ \/ \E raw \in SeqsOf(Symbols, 1, MaxUniverse) :
          /\ SYMBOLS_CACHE' = SliceCap(Unique(raw))
          /\ feed' = [feed EXCEPT ![c] = Fetching(c, feed[c].kind, SYMBOLS_CACHE')]
     \/ /\ feed' = [feed EXCEPT ![c].pc = "file"]
        /\ SYMBOLS_CACHE' = SYMBOLS_CACHE
  /\ UNCHANGED <<twelveKey, exceptFeed>>

\* getUniverseSymbols, 2) local file, 3) small default list.
UniverseFile(c) ==
  /\ feed[c].pc = "file"
  /\ \/ \E arr \in SeqsOf(Symbols, 1, MaxUniverse) : SYMBOLS_CACHE' = SliceCap(arr)
     \/ SYMBOLS_CACHE' = SliceCap(DefaultList)
  /\ feed' = [feed EXCEPT ![c] = Fetching(c, feed[c].kind, SYMBOLS_CACHE')]
  /\ UNCHANGED <<twelveKey, exceptFeed>>

\* getSnapshot, 1) Yahoo intraday: fetchFromYahoo has resolved.
YahooDone(c) ==
  /\ feed[c].pc = "yahoo"
  /\ \E valid \in SUBSET (1 .. Len(feed[c].universe)) :
       LET y == RowsOf(feed[c].universe, valid, "yahoo")
       IN IF Wins(y)
          THEN feed' = [feed EXCEPT ![c] = Returned(c, Dedup(y), Len(y))]
          ELSE feed' = [feed EXCEPT ![c] =
                   [feed[c] EXCEPT !.pc = "nse", !.queried = Append(@, "nse"),
                                   !.yields = Append(@, Len(y))]]
  /\ UNCHANGED <<SYMBOLS_CACHE, twelveKey, exceptFeed>>

\* getSnapshot, 2) NSE: fetchFromNSE has resolved; without TWELVEDATA_KEY
\* fetchFromTwelveData returns null at once and the mock rows are returned.
NseDone(c) ==
  /\ feed[c].pc = "nse"
  /\ \E valid \in SUBSET (1 .. Len(feed[c].universe)) :
       LET nse == RowsOf(feed[c].universe, valid, "nse")
       IN IF Wins(nse)
          THEN feed' = [feed EXCEPT ![c] = Returned(c, nse, Len(nse))]
          ELSE IF twelveKey
          THEN feed' = [feed EXCEPT ![c] =
                   [feed[c] EXCEPT !.pc = "twelvedata",
                                   !.queried = Append(@, "twelvedata"),
                                   !.yields = Append(@, Len(nse))]]
          ELSE feed' = [feed EXCEPT ![c] = Returned(c, MockRows(SYMBOLS_CACHE), Len(nse))]
  /\ UNCHANGED <<SYMBOLS_CACHE, twelveKey, exceptFeed>>

\* getSnapshot, 3) Twelve Data: fetchFromTwelveData has resolved with the rows
\* of its answer, or has thrown (HTTP error, timeout); 4) mock fallback.
TwelveDone(c) ==
  /\ feed[c].pc = "twelvedata"
  /\ \/ \E syms \in SeqsOf(Symbols, 0, MaxUniverse) :
          LET td == [i \in 1 .. Len(syms) |-> [symbol |-> syms[i], src |-> "twelvedata"]]
          IN IF Wins(td)
             THEN feed' = [feed EXCEPT ![c] = Returned(c, td, Len(td))]
             ELSE feed' = [feed EXCEPT ![c] = Returned(c, MockRows(SYMBOLS_CACHE), Len(td))]
     \/ feed' = [feed EXCEPT ![c] = Returned(c, MockRows(SYMBOLS_CACHE), 0)]
  /\ UNCHANGED <<SYMBOLS_CACHE, twelveKey, exceptFeed>>

\* getPreviousSessionSnapshot: fetchPreviousSessionFromYahoo has resolved.
PrevYahooDone(c) ==
  /\ feed[c].pc = "yahoo-daily"
  /\ \E valid \in SUBSET (1 .. Len(feed[c].universe)) :
       LET y == RowsOf(feed[c].universe, valid, "yahoo-daily")
       IN IF Wins(y)
          THEN feed' = [feed EXCEPT ![c] = Returned(c, y, Len(y))]
          ELSE feed' = [feed EXCEPT ![c] = Returned(c, MockRows(SYMBOLS_CACHE), Len(y))]
  /\ UNCHANGED <<SYMBOLS_CACHE, twelveKey, exceptFeed>>

\* The caller has taken the returned list.
FeedReturn(c) ==
  /\ feed[c].pc = "done"
  /\ feed' = [feed EXCEPT ![c] = IdleCall]
  /\ UNCHANGED <<SYMBOLS_CACHE, twelveKey, exceptFeed>>

FeedInit ==
  /\ SYMBOLS_CACHE = <<>>
  /\ twelveKey \in BOOLEAN
  /\ feed = [c \in Calls |-> IdleCall]

(***************************************************************************)
(* marketFeed.js: pool and fetchFromYahoo, the per-symbol source fetch of   *)
(* getSnapshot.                                                            *)
(***************************************************************************)
\* The longest list of symbols a source fetch is run over.
MaxPoolItems == 3
\* The two passes of `for (let attempt = 0; attempt < 2; attempt++)`.
TRIES == 2
\* Values of FEED_CONCURRENCY (8 by default), scaled to the lists of the model.
LimitChoices == {1, 2}

WorkerIds == 1 .. MaxPoolItems

\* A worker is at `await task(items[idx], idx)`: its task awaits a fetch
\* ("fetch") or the backoff sleep ("sleep"), or it has left its loop.
NoWorker == [pc |-> "none", idx |-> 0, attempt |-> 0]

\* i is the counter of pool; runs, requests and fails count, per position of
\* items, the calls of task, the fetches issued and the fetches that failed;
\* out is the array the tasks push to; snapshot is what getSnapshot returns
\* when the source wins.
IdlePool == [pc |-> "idle", items |-> <<>>, limit |-> 0, i |-> 0,
             worker |-> [w \in WorkerIds |-> NoWorker],
             runs |-> [k \in 1 .. MaxPoolItems |-> 0],
             requests |-> [k \in 1 .. MaxPoolItems |-> 0],
             fails |-> [k \in 1 .. MaxPoolItems |-> 0],
             finished |-> [k \in 1 .. MaxPoolItems |-> FALSE],
             out |-> <<>>, snapshot |-> <<>>]

\* Mutant of PoolWorkers: one worker per item.
PoolWorkersPerItem(limit, n) == n
\* `Math.min(limit, items.length)`
PoolWorkers(limit, n) == IF limit < n THEN limit ELSE n

\* `while (i < items.length) { const idx = i++; out[idx] = await task(...) }`:
\* worker w tests the counter and either calls the task of the next item,
\* which issues its first fetch, or returns.
TakeNext(p, w) ==
  IF p.i < Len(p.items)
  THEN [p EXCEPT !.i = @ + 1,
                 !.worker[w] = [pc |-> "fetch", idx |-> p.i + 1, attempt |-> 0],
                 !.runs[p.i + 1] = @ + 1,
                 !.requests[p.i + 1] = @ + 1]
  ELSE [p EXCEPT !.worker[w] = [pc |-> "finished", idx |-> 0, attempt |-> 0]]

\* Array.from({ length }, () => worker()): the workers start one after the
\* other, each running up to its first await.
RECURSIVE StartWorkers(_, _)
StartWorkers(p, m) == IF m = 0 THEN p ELSE TakeNext(StartWorkers(p, m - 1), m)

\* The task of worker w has returned.
TaskOver(p, w) == TakeNext([p EXCEPT !.finished[p.worker[w].idx] = TRUE], w)

\* fetchFromYahoo(symbols) calls pool(symbols, FEED_CONCURRENCY, task).
PoolCall ==
  /\ pl.pc = "idle"
  /\ \E items \in SeqsOf(Symbols, 0, MaxPoolItems), limit \in LimitChoices :
       pl' = StartWorkers([IdlePool EXCEPT !.pc = "running", !.items = items,
                                          !.limit = limit],
                          PoolWorkers(limit, Len(items)))
  /\ UNCHANGED exceptPool

\* The fetch of a task is answered with res.ok: a quote with finite open, ltp
\* and pct_change is pushed, another answer is not; the task breaks.
TaskAnswers(w) ==
  /\ pl.pc = "running" /\ pl.worker[w].pc = "fetch"
  /\ \E valid \in BOOLEAN :
       LET row == [symbol |-> pl.items[pl.worker[w].idx], src |-> "yahoo"]
       IN pl' = TaskOver([pl EXCEPT !.out = IF valid THEN Append(@, row) ELSE @], w)
  /\ UNCHANGED exceptPool

\* The fetch of a task fails (error response, timeout, transport error): the
\* catch breaks after the last try and sleeps the backoff before another.
TaskFails(w) ==
  /\ pl.pc = "running" /\ pl.worker[w].pc = "fetch"
  /\ LET failed == [pl EXCEPT !.fails[pl.worker[w].idx] = @ + 1]
     IN IF pl.worker[w].attempt = TRIES - 1
        THEN pl' = TaskOver(failed, w)
        ELSE pl' = [failed EXCEPT !.worker[w].pc = "sleep"]
  /\ UNCHANGED exceptPool

\* The backoff sleep is over: the next pass of the loop issues the fetch again.
TaskRetry(w) ==
  /\ pl.pc = "running" /\ pl.worker[w].pc = "sleep"
  /\ pl' = [pl EXCEPT !.worker[w].pc = "fetch", !.worker[w].attempt = @ + 1,
                      !.requests[pl.worker[w].idx] = @ + 1]
  /\ UNCHANGED exceptPool

\* `await Promise.all(workers)` resolves when every worker has returned;
\* getSnapshot returns the deduplicated quotes when Yahoo gave any.
PoolResolve ==
  /\ pl.pc = "running"
  /\ \A w \in WorkerIds : pl.worker[w].pc \in {"none", "finished"}
  /\ pl' = [pl EXCEPT !.pc = "resolved",
                      !.snapshot = IF Wins(pl.out) THEN Dedup(pl.out) ELSE <<>>]
  /\ UNCHANGED exceptPool

(***************************************************************************)
(* modules/agnoClient.js and modules/recommendationEngine.js.              *)
(* Percentages and sentiment scores are integers, scaled by 100.           *)
(***************************************************************************)
\* AGNO_RETRIES: the number of retries after the first try.
RETRIES == 2
\* Calls of getAgnoPicks are started while metrics.totalCalls is below this.
MaxTotalCalls == 1
\* The longest list of candidates handed to buildEnhancedRecommendations.
MaxCands == 2

VADER_NEUTRAL_BAND == 20
PRICE_CONFLICT_BAND == 100
BIG_MOVE_PCT == 300
HIGH_VOLUME_THRESHOLD == 1000000
AGNO_MAX_PER_BATCH == 100
POS_THRESHOLD == 5
NEG_THRESHOLD == -5

Abs(x) == IF x < 0 THEN -x ELSE x

\* What Number(x) gives for an x that is no number; it is not finite.
NaN == -999999

\* Mutant of ClampUnit: the score is taken as it comes.
ClampUnitNone(n) == n
\* clampUnit = (n) => clamp(Number.isFinite(n) ? n : 0, -1, 1)
ClampUnit(n) == IF n = NaN THEN 0 ELSE IF n < -100 THEN -100 ELSE IF n > 100 THEN 100 ELSE n

\* aggregateSentiment: the label of a compound score.
VaderLabel(compound) ==
  IF compound >= POS_THRESHOLD THEN "Positive"
  ELSE IF compound <= NEG_THRESHOLD THEN "Negative"
  ELSE "Neutral"

\* vaderToRec
VaderToRec(label) ==
  IF label = "Positive" THEN "BULLISH" ELSE IF label = "Negative" THEN "SKIP" ELSE "WATCH"

\* normRec
NormRec(label) ==
  IF label = "BULLISH" THEN "BULLISH" ELSE IF label = "SKIP" THEN "SKIP" ELSE "WATCH"

\* mapAgnoLabelToVader
MapAgnoLabelToVader(label) ==
  IF label = "BULLISH" THEN "Positive" ELSE IF label = "SKIP" THEN "Negative" ELSE "Neutral"

\* generateVaderReason, by its shape.
GenerateVaderReason(label, count) ==
  IF count = 0 THEN "No recent news available"
  ELSE IF label = "Positive" THEN "Positive sentiment"
  ELSE IF label = "Negative" THEN "Negative sentiment"
  ELSE "Neutral sentiment"

\* Mutant of ShouldSendToLLM: an uncertain score alone does not escalate.
ShouldSendWhenImpactful(pct, vol, compound, label) ==
  \/ Abs(pct) >= BIG_MOVE_PCT
  \/ vol >= HIGH_VOLUME_THRESHOLD
  \/ (label = "Positive" /\ pct <= -PRICE_CONFLICT_BAND)
  \/ (label = "Negative" /\ pct >= PRICE_CONFLICT_BAND)
\* shouldSendToLLM (REQUIRE_NEWS_FOR_LLM is false by default).
ShouldSendToLLM(pct, vol, compound, label) ==
  \/ Abs(pct) >= BIG_MOVE_PCT
  \/ vol >= HIGH_VOLUME_THRESHOLD
  \/ Abs(compound) < VADER_NEUTRAL_BAND
  \/ (label = "Positive" /\ pct <= -PRICE_CONFLICT_BAND)
  \/ (label = "Negative" /\ pct >= PRICE_CONFLICT_BAND)

\* No pure function is being called.
IdleProbe == [fn |-> "none", pc |-> "idle", arg |-> [pct |-> 0], out |-> FALSE]

\* The rows and VADER results shouldSendToLLM is called with: pct_change and
\* volume of the quote and the compound score, around each threshold.
HeuristicInputs ==
  [pct : {-300, -299, -100, -99, 0, 99, 100, 299, 300},
   volume : {0, 999999, 1000000},
   compound : {-50, -20, -19, -5, -4, 0, 3, 4, 5, 19, 20, 50}]

\* needsLLM: shouldSendToLLM(row, vader, articles.length), for the label
\* aggregateSentiment gives the compound score.
ShouldSendToLLMCall ==
  /\ probe.fn = "shouldSendToLLM" /\ probe.pc = "called"
  /\ probe' = [probe EXCEPT !.pc = "returned",
                 !.out = ShouldSendToLLM(probe.arg.pct, probe.arg.volume,
                                         probe.arg.compound, VaderLabel(probe.arg.compound))]
  /\ UNCHANGED exceptProbe

\* The longest snapshot handed to the selection of candidates.
MaxRows == 3
\* The 50 of `slice(0, 50)`, scaled to the snapshots of the model.
TOP_N == 2

\* Mutant of PrimaryFilter: the volume is not looked at.
PrimaryFilterWithoutVolume(row) ==
  IF row.pct = NaN \/ row.open = NaN \/ row.volume = NaN THEN FALSE
  ELSE row.pct >= 100 /\ row.pct <= 300 /\ row.open > 50
\* filters.js: primaryFilter (pct_change scaled by 100).
PrimaryFilter(row) ==
  IF row.pct = NaN \/ row.open = NaN \/ row.volume = NaN THEN FALSE
  ELSE row.pct >= 100 /\ row.pct <= 300 /\ row.open > 50 /\ row.volume >= 100000

\* Quotes of a snapshot: three that pass the filter, at its edges, and quotes
\* that miss one condition or hold a value that is no finite number.
QuoteChoices ==
  {[symbol |-> "A", pct |-> 200, open |-> 100, volume |-> 500000],
   [symbol |-> "B", pct |-> 300, open |-> 100, volume |-> 100000],
   [symbol |-> "A", pct |-> 100, open |-> 51, volume |-> 100000],
   [symbol |-> "B", pct |-> 500, open |-> 100, volume |-> 50000],
   [symbol |-> "A", pct |-> 99, open |-> 100, volume |-> 500000],
   [symbol |-> "B", pct |-> 301, open |-> 100, volume |-> 500000],
   [symbol |-> "A", pct |-> 200, open |-> 50, volume |-> 500000],
   [symbol |-> "B", pct |-> 200, open |-> 100, volume |-> 99999],
   [symbol |-> "A", pct |-> NaN, open |-> 100, volume |-> 500000],
   [symbol |-> "B", pct |-> 200, open |-> NaN, volume |-> 500000],
   [symbol |-> "A", pct |-> 200, open |-> 100, volume |-> NaN]}

\* Mutant of TopCandidates: the filtered quotes are cut without being sorted.
TopCandidatesUnsorted(data) ==
  LET candidates == SelectSeq(data, PrimaryFilter)
      n == Len(candidates)
  IN SubSeq(candidates, 1, IF n < TOP_N THEN n ELSE TOP_N)
\* Mutant of TopCandidates: the snapshot is sorted and sliced, not filtered.
TopCandidatesUnfiltered(data) ==
  LET n == Len(data)
      rank(i) == 1 + Cardinality({j \in 1 .. n :
                        \/ data[j].pct > data[i].pct
                        \/ data[j].pct = data[i].pct /\ j < i})
      sorted == [k \in 1 .. n |-> data[CHOOSE i \in 1 .. n : rank(i) = k]]
  IN SubSeq(sorted, 1, IF n < TOP_N THEN n ELSE TOP_N)
\* data.filter(primaryFilter).sort((a, b) => b.pct_change - a.pct_change)
\*     .slice(0, 50): the sort is stable.
TopCandidates(data) ==
  LET candidates == SelectSeq(data, PrimaryFilter)
      n == Len(candidates)
      rank(i) == 1 + Cardinality({j \in 1 .. n :
                        \/ candidates[j].pct > candidates[i].pct
                        \/ candidates[j].pct = candidates[i].pct /\ j < i})
      sorted == [k \in 1 .. n |-> candidates[CHOOSE i \in 1 .. n : rank(i) = k]]
  IN SubSeq(sorted, 1, IF n < TOP_N THEN n ELSE TOP_N)

\* The selection of the candidates of a build from the snapshot it uses.
TopCandidatesCall ==
  /\ probe.fn = "topCandidates" /\ probe.pc = "called"
  /\ probe' = [probe EXCEPT !.pc = "returned", !.out = TopCandidates(probe.arg.data)]
  /\ UNCHANGED exceptProbe

\* Math.log10(vol + 1), scaled by 100, for the volumes of the model.
Log10x100(vol) ==
  IF vol >= 1000000 THEN 630 ELSE IF vol >= 100000 THEN 570 ELSE IF vol > 0 THEN 470 ELSE 0

\* priorityScore, scaled by 100.
PriorityScore(pct, vol, count) ==
  Abs(pct) * 10 + (IF count > 0 THEN 2000 ELSE 0) + Log10x100(IF vol < 0 THEN 0 ELSE vol)

\* The candidates the model hands to buildEnhancedRecommendations: pct_change
\* and volume of the quote, and the (compound, count) aggregateSentiment gives
\* for its news.  In order: confident and quiet, uncertain, big move on high
\* volume, negative news against a rising price, no news.
ProfileChoices ==
  {<<200, 500000, 50, 2>>, <<200, 500000, 3, 2>>, <<300, 2000000, 50, 2>>,
   <<200, 500000, -50, 2>>, <<200, 500000, 0, 0>>}
\* A opens at 100 and B at 200; ltp follows from open and the percent change.
CandChoices ==
  {LET open == IF sy = "A" THEN 100 ELSE 200
   IN [symbol |-> sy, open |-> open, ltp |-> open + (open * q[1]) \div 10000,
       pct |-> q[1], volume |-> q[2], compound |-> q[3], count |-> q[4]] :
     sy \in Symbols, q \in ProfileChoices}

\* 1) VADER pass: one base row per candidate.
BaseRow(cand) ==
  LET label == VaderLabel(cand.compound)
  IN [symbol |-> cand.symbol, open |-> cand.open, ltp |-> cand.ltp,
      pct |-> cand.pct, volume |-> cand.volume,
      compound |-> cand.compound, label |-> label, count |-> cand.count,
      rec |-> VaderToRec(label),
      needsLLM |-> ShouldSendToLLM(cand.pct, cand.volume, cand.compound, label),
      priority |-> PriorityScore(cand.pct, cand.volume, cand.count)]

BaseRows(cands) == [i \in 1 .. Len(cands) |-> BaseRow(cands[i])]

\* rows.filter(pred), for pred the needsLLM field.
RECURSIVE FilterNeedsLLM(_)
FilterNeedsLLM(rows) ==
  IF rows = <<>> THEN <<>>
  ELSE LET before == FilterNeedsLLM(SubSeq(rows, 1, Len(rows) - 1))
           r == rows[Len(rows)]
       IN IF r.needsLLM THEN Append(before, r) ELSE before

\* Insert r into rows sorted by descending priority, after its equals (the sort
\* of Array.prototype.sort is stable).
RECURSIVE InsertByPriority(_, _)
InsertByPriority(rows, r) ==
  IF rows = <<>> THEN <<r>>
  ELSE IF rows[Len(rows)].priority >= r.priority THEN Append(rows, r)
  ELSE Append(InsertByPriority(SubSeq(rows, 1, Len(rows) - 1), r), rows[Len(rows)])

\* rows.sort((a, b) => b.priority - a.priority)
RECURSIVE SortByPriority(_)
SortByPriority(rows) ==
  IF rows = <<>> THEN <<>>
  ELSE InsertByPriority(SortByPriority(SubSeq(rows, 1, Len(rows) - 1)), rows[Len(rows)])

\* Mutant of LlmCandidatesOfMax: the rows are cut without being sorted.
LlmCandidatesUnsorted(base, max) ==
  LET kept == FilterNeedsLLM(base)
  IN SubSeq(kept, 1, IF Len(kept) < max THEN Len(kept) ELSE max)
\* baseRows.filter((x) => x.needsLLM).sort((a, b) => b.priority - a.priority)
\*     .slice(0, max), for max the value of the tunable AGNO_MAX_PER_BATCH.
LlmCandidatesOfMax(base, max) ==
  LET sorted == SortByPriority(FilterNeedsLLM(base))
  IN SubSeq(sorted, 1, IF Len(sorted) < max THEN Len(sorted) ELSE max)

\* 2) Agno subset: llmCandidates and llmSymbols.
LlmCandidates(base) == LlmCandidatesOfMax(base, AGNO_MAX_PER_BATCH)

\* The longest list of candidates whose batch is selected on its own.
MaxBatchInput == 3

\* The selection of the batch of a build, for a positive AGNO_MAX_PER_BATCH.
LlmCandidatesCall ==
  /\ probe.fn = "llmCandidates" /\ probe.pc = "called"
  /\ probe' = [probe EXCEPT !.pc = "returned",
                            !.out = LlmCandidatesOfMax(BaseRows(probe.arg.cands),
                                                       probe.arg.max)]
  /\ UNCHANGED exceptProbe

LlmSymbols(base) == [i \in 1 .. Len(LlmCandidates(base)) |-> LlmCandidates(base)[i].symbol]

\* What the Agno service may answer for one symbol.
EntryChoices ==
  {[score |-> 80, label |-> "BULLISH", reason |-> "strong results", error |-> FALSE],
   [score |-> -250, label |-> "sell", reason |-> "", error |-> FALSE],
   [score |-> NaN, label |-> "SKIP", reason |-> "weak demand", error |-> FALSE],
   [score |-> 0, label |-> "WATCH", reason |-> "", error |-> TRUE]}
NoEntryFor == [score |-> 0, label |-> "", reason |-> "", error |-> FALSE]

\* An answer of getAgnoPicks: null, or an array which for each symbol holds an
\* entry or none (NoEntryFor); agnoMap keeps one entry per symbol.
NullResult == [isArray |-> FALSE, entry |-> [sy \in Symbols |-> NoEntryFor]]
ArrayResults ==
  {[isArray |-> TRUE, entry |-> e] : e \in [Symbols -> EntryChoices \cup {NoEntryFor}]}

\* Mutant of MergeRow: one entry with an error discards the whole answer.
MergeRowAllOrNothing(b, res) ==
  IF res.isArray /\ res.entry[b.symbol] # NoEntryFor
       /\ \A sy \in Symbols : ~res.entry[sy].error
  THEN LET a == res.entry[b.symbol]
       IN [symbol |-> b.symbol, open |-> b.open, ltp |-> b.ltp,
           pct |-> b.pct, volume |-> b.volume,
           score |-> ClampUnit(a.score), label |-> NormRec(a.label),
           slabel |-> MapAgnoLabelToVader(NormRec(a.label)), count |-> b.count,
           reason |-> IF a.reason = "" THEN "AI summary" ELSE a.reason,
           source |-> "agno"]
  ELSE [symbol |-> b.symbol, open |-> b.open, ltp |-> b.ltp,
        pct |-> b.pct, volume |-> b.volume,
        score |-> ClampUnit(b.compound), label |-> b.rec,
        slabel |-> b.label, count |-> b.count,
        reason |-> GenerateVaderReason(b.label, b.count),
        source |-> "vader"]
\* Mutant of MergeRow: the reason of the VADER pass survives an Agno answer.
MergeRowKeepingReason(b, res) ==
  IF res.isArray /\ res.entry[b.symbol] # NoEntryFor /\ ~res.entry[b.symbol].error
  THEN LET a == res.entry[b.symbol]
       IN [symbol |-> b.symbol, open |-> b.open, ltp |-> b.ltp,
           pct |-> b.pct, volume |-> b.volume,
           score |-> ClampUnit(a.score), label |-> NormRec(a.label),
           slabel |-> MapAgnoLabelToVader(NormRec(a.label)), count |-> b.count,
           reason |-> GenerateVaderReason(b.label, b.count),
           source |-> "agno"]
  ELSE [symbol |-> b.symbol, open |-> b.open, ltp |-> b.ltp,
        pct |-> b.pct, volume |-> b.volume,
        score |-> ClampUnit(b.compound), label |-> b.rec,
        slabel |-> b.label, count |-> b.count,
        reason |-> GenerateVaderReason(b.label, b.count),
        source |-> "vader"]
\* 3) Merge: the recommendation of one base row, given the answer of Agno.
MergeRow(b, res) ==
  IF res.isArray /\ res.entry[b.symbol] # NoEntryFor /\ ~res.entry[b.symbol].error
  THEN LET a == res.entry[b.symbol]
       IN [symbol |-> b.symbol, open |-> b.open, ltp |-> b.ltp,
           pct |-> b.pct, volume |-> b.volume,
           score |-> ClampUnit(a.score), label |-> NormRec(a.label),
           slabel |-> MapAgnoLabelToVader(NormRec(a.label)), count |-> b.count,
           reason |-> IF a.reason = "" THEN "AI summary" ELSE a.reason,
           source |-> "agno"]
  ELSE [symbol |-> b.symbol, open |-> b.open, ltp |-> b.ltp,
        pct |-> b.pct, volume |-> b.volume,
        score |-> ClampUnit(b.compound), label |-> b.rec,
        slabel |-> b.label, count |-> b.count,
        reason |-> GenerateVaderReason(b.label, b.count),
        source |-> "vader"]

\* Mutant of Merge: the rows are merged in the order of the escalation sort,
\* as if baseRows had been sorted in place.
MergeInPriorityOrder(base, res) ==
  [i \in 1 .. Len(base) |-> MergeRow(SortByPriority(base)[i], res)]
\* `baseRows.map(...)`: one recommendation per base row, in order.
Merge(base, res) == [i \in 1 .. Len(base) |-> MergeRow(base[i], res)]

\* tries counts the attempts of the current getAgnoPicks call and oks those
\* that were answered; failures0 is metrics.totalFailures as the call found it.
IdleEng == [pc |-> "idle", base |-> <<>>, batch |-> <<>>, attempt |-> 0, tries |-> 0,
            oks |-> 0, failures0 |-> 0, res |-> NullResult, out |-> <<>>]

\* buildEnhancedRecommendations returns: steps 1-3 are done.
Built(e, res) == [e EXCEPT !.pc = "done", !.res = res, !.out = Merge(e.base, res)]

\* Mutant of MayRetry: one retry too many.
MayRetryOnceMore(attempt) == attempt < RETRIES + 1
\* `if (attempt < RETRIES)`
MayRetry(attempt) == attempt < RETRIES

\* Mutant of Disabled: every call is answered as with the flag off.
DisabledAlways == TRUE
\* Mutant of Disabled: the feature flag is not looked at.
DisabledNever == FALSE
\* `if (!ENABLED)` at the head of getAgnoPicks.
Disabled == ~AGNO_ENABLED

\* Mutant of AttemptStarted: the attempt is not counted.
AttemptUncounted == metrics
\* An attempt of getAgnoPicks starts: `metrics.totalCalls += 1`, then fetch.
AttemptStarted == [metrics EXCEPT !.totalCalls = @ + 1]

\* buildEnhancedRecommendations(candidates, newsMap) is called.  Without
\* symbols to send, or with Agno disabled, it returns without a fetch.
BuildCall ==
  /\ eng.pc = "idle"
  /\ metrics.totalCalls < MaxTotalCalls
  /\ \E cands \in SeqsOf(CandChoices, 1, MaxCands) :
       LET base == BaseRows(cands)
           started == [IdleEng EXCEPT !.base = base, !.batch = LlmSymbols(base),
                                         !.failures0 = metrics.totalFailures]
       IN IF LlmSymbols(base) = <<>>
          THEN /\ eng' = Built(started, NullResult)
               /\ metrics' = metrics
          ELSE IF Disabled
          THEN /\ eng' = Built(started, NullResult)
               /\ metrics' = [metrics EXCEPT !.lastStatus = "disabled"]
          ELSE /\ eng' = [started EXCEPT !.pc = "fetch", !.tries = 1]
               /\ metrics' = AttemptStarted
  /\ UNCHANGED <<AGNO_ENABLED, exceptAgno>>

\* The fetch of an attempt resolves with res.ok and a JSON body: getAgnoPicks
\* returns the normalized array.
AgnoAnswers ==
  /\ eng.pc = "fetch"
  /\ \E res \in ArrayResults, duration \in 0 .. 1 :
       /\ metrics' = [metrics EXCEPT !.totalDuration = @ + duration,
                                     !.lastStatus = "ok", !.lastError = ""]
       /\ eng' = Built([eng EXCEPT !.oks = @ + 1], res)
  /\ UNCHANGED <<AGNO_ENABLED, exceptAgno>>

\* An attempt fails: an error response (its duration is added before the throw
\* and again in the catch), a transport error, or the abort after TIMEOUT_MS.
\* Either a retry follows the backoff sleep, or getAgnoPicks returns null.
AgnoFails ==
  /\ eng.pc = "fetch"
  /\ \E kind \in {"http", "transport", "timeout"}, duration \in 0 .. 1 :
       /\ metrics' = [metrics EXCEPT
              !.totalDuration = @ + (IF kind = "http" THEN 2 * duration ELSE duration),
              !.totalFailures = @ + 1,
              !.lastStatus = IF kind = "timeout" THEN "timeout" ELSE "error",
              !.lastError = kind]
       /\ IF MayRetry(eng.attempt)
          THEN eng' = [eng EXCEPT !.pc = "sleep"]
          ELSE eng' = Built(eng, NullResult)
  /\ UNCHANGED <<AGNO_ENABLED, exceptAgno>>

\* The backoff sleep is over: `attempt += 1; continue` and the next attempt.
AgnoRetry ==
  /\ eng.pc = "sleep"
  /\ eng' = [eng EXCEPT !.pc = "fetch", !.attempt = @ + 1, !.tries = @ + 1]
  /\ metrics' = AttemptStarted
  /\ UNCHANGED <<AGNO_ENABLED, exceptAgno>>

\* The caller has taken the recommendations.
BuildReturn ==
  /\ eng.pc = "done"
  /\ eng' = IdleEng
  /\ UNCHANGED <<AGNO_ENABLED, metrics, exceptAgno>>

AgnoInit ==
  /\ AGNO_ENABLED \in BOOLEAN
  /\ metrics = [totalCalls |-> 0, totalFailures |-> 0, totalDuration |-> 0,
                lastStatus |-> "idle", lastError |-> ""]
  /\ eng = IdleEng

(***************************************************************************)
(* modules/newsFetcher.js.  The age of an article is Date.now() minus its   *)
(* publishedAt, in hours.                                                  *)
(***************************************************************************)
\* The longest list of items a source answers with.
MaxItems == 2
\* HORIZON_MS, in hours.
HORIZON_HOURS == 48

\* NewsAPI, then the RSS fallbacks in order of reliability.
NewsSources == <<"NewsAPI", "Google News", "Yahoo Finance", "Economic Times", "Bing News">>

\* Items as a source hands them over: the same headline as three sites print
\* it, another headline, and items without title, without link, older than
\* the horizon, dated in the future.
RawItems ==
  {[title |-> "Profit up", url |-> "x.com", age |-> 2],
   [title |-> " Profit up ", url |-> "economictimes.com", age |-> 1],
   [title |-> "PROFIT UP", url |-> "x.com", age |-> 1],
   [title |-> "Order win", url |-> "economictimes.com", age |-> 2],
   [title |-> "", url |-> "x.com", age |-> 1],
   [title |-> "Order win", url |-> "", age |-> 1],
   [title |-> "Profit up", url |-> "x.com", age |-> 49],
   [title |-> "Order win", url |-> "x.com", age |-> -1]}

\* String.prototype.trim, on the titles of the model.
Trim(t) == IF t = " Profit up " THEN "Profit up" ELSE t

\* String.prototype.toLowerCase, on the trimmed titles of the model.
ToLowerCase(t) ==
  IF t \in {"Profit up", "PROFIT UP"} THEN "profit up"
  ELSE IF t = "Order win" THEN "order win" ELSE t

\* normalizeItem: the title is trimmed.
NormalizeItem(it) == [it EXCEPT !.title = Trim(it.title)]

\* isFresh
IsFresh(age) == age <= HORIZON_HOURS /\ age >= 0

\* `a.title && a.url && isFresh(a.publishedAt)`, and for Economic Times
\* `/economictimes\.com/i.test(a.url)`.
KeepsItem(a, source) ==
  /\ a.title # "" /\ a.url # "" /\ IsFresh(a.age)
  /\ source = "Economic Times" => a.url = "economictimes.com"

\* Mutant of DedupeArticles: titles are compared as they are written.
RECURSIVE DedupeExactTitles(_)
DedupeExactTitles(items) ==
  IF items = <<>> THEN <<>>
  ELSE LET out == DedupeExactTitles(SubSeq(items, 1, Len(items) - 1))
           it == items[Len(items)]
       IN IF it.title = "" \/ \E i \in 1 .. Len(out) : out[i].title = it.title
          THEN out ELSE Append(out, it)
\* dedupeArticles
RECURSIVE DedupeArticles(_)
DedupeArticles(items) ==
  IF items = <<>> THEN <<>>
  ELSE LET out == DedupeArticles(SubSeq(items, 1, Len(items) - 1))
           it == items[Len(items)]
           key == ToLowerCase(Trim(it.title))
       IN IF key = "" \/ \E i \in 1 .. Len(out) : ToLowerCase(Trim(out[i].title)) = key
          THEN out ELSE Append(out, it)

\* sortByNewest: a stable sort, the youngest article first.
RECURSIVE SortByNewest(_)
SortByNewest(items) ==
  IF items = <<>> THEN <<>>
  ELSE LET sorted == SortByNewest(SubSeq(items, 1, Len(items) - 1))
           it == items[Len(items)]
           older == {i \in 1 .. Len(sorted) : sorted[i].age > it.age}
           k == IF older = {} THEN Len(sorted) + 1
                ELSE CHOOSE i \in older : \A j \in older : i <= j
       IN SubSeq(sorted, 1, k - 1) \o <<it>> \o SubSeq(sorted, k, Len(sorted))

\* items.map(normalizeItem).filter(...), kept with the name of the source.
RECURSIVE MappedItems(_, _)
MappedItems(raw, source) ==
  IF raw = <<>> THEN <<>>
  ELSE LET before == MappedItems(SubSeq(raw, 1, Len(raw) - 1), source)
           a == NormalizeItem(raw[Len(raw)])
       IN IF KeepsItem(a, source)
          THEN Append(before, [title |-> a.title, url |-> a.url, age |-> a.age,
                               source |-> source])
          ELSE before

\* What a fetcher returns for the items of its answer.
FetcherResult(raw, source) == SortByNewest(DedupeArticles(MappedItems(raw, source)))

\* asked lists the sources that were sent a request, in order, and outcomes
\* how each of them ended: "error", "empty" or "articles"; raw holds the items
\* of the answer the returned articles were made of.
IdleNews == [pc |-> "idle", key |-> FALSE, at |-> 0, asked |-> <<>>, outcomes |-> <<>>,
             raw |-> <<>>, result |-> <<>>]

\* Mutant of NextSource: the sources after the first two are not tried.
NextSourceOfTwo(n, outcome) ==
  LET m == [n EXCEPT !.outcomes = Append(@, outcome)]
  IN IF n.at >= 2 THEN [m EXCEPT !.pc = "done", !.result = <<>>]
     ELSE [m EXCEPT !.at = @ + 1, !.asked = Append(@, NewsSources[n.at + 1])]
\* The next source is tried, or after the last one `return []`.
NextSource(n, outcome) ==
  LET m == [n EXCEPT !.outcomes = Append(@, outcome)]
  IN IF n.at = Len(NewsSources) THEN [m EXCEPT !.pc = "done", !.result = <<>>]
     ELSE [m EXCEPT !.at = @ + 1, !.asked = Append(@, NewsSources[n.at + 1])]

\* getNewsForSymbol(symbol) is called.  Without NEWSAPI_KEY fetchNewsAPI
\* returns [] at once and Google News is the first source to be asked.
NewsCall ==
  /\ nf.pc = "idle"
  /\ nf' = IF nf.key
           THEN [nf EXCEPT !.pc = "fetch", !.at = 1, !.asked = <<NewsSources[1]>>]
           ELSE [nf EXCEPT !.pc = "fetch", !.at = 2, !.asked = <<NewsSources[2]>>]
  /\ UNCHANGED exceptNews

\* The source that was asked answers: its fetcher returns the articles that
\* are left of the answer, and getNewsForSymbol returns them unless there
\* are none.
NewsSourceAnswers ==
  /\ nf.pc = "fetch"
  /\ \E raw \in SeqsOf(RawItems, 0, MaxItems) :
       LET articles == FetcherResult(raw, NewsSources[nf.at])
       IN nf' = IF Len(articles) > 0
                THEN [nf EXCEPT !.pc = "done", !.result = articles, !.raw = raw,
                                !.outcomes = Append(@, "articles")]
                ELSE NextSource(nf, "empty")
  /\ UNCHANGED exceptNews

\* Mutant of NewsSourceFails: the error of a source leaves getNewsForSymbol.
NewsSourceFailsThrough ==
  /\ nf.pc = "fetch"
  /\ nf' = [nf EXCEPT !.pc = "threw", !.outcomes = Append(@, "error")]
  /\ UNCHANGED exceptNews
\* The fetcher of the source that was asked throws: an error response, a
\* transport error, the abort of fetchWithTimeout, an answer it cannot parse.
NewsSourceFails ==
  /\ nf.pc = "fetch"
  /\ nf' = NextSource(nf, "error")
  /\ UNCHANGED exceptNews

\* The caller has taken the articles.
NewsReturn ==
  /\ nf.pc = "done"
  /\ nf' = [IdleNews EXCEPT !.key = nf.key]
  /\ UNCHANGED exceptNews

NewsInit == nf = IdleNews


(***************************************************************************)
(* backend/src/index.js: the session orchestration.  One unit of time is   *)
(* 30 s.  The orchestrator tests its lists for emptiness only: a snapshot  *)
(* is kept by whether a row of it passes primaryFilter (1) or none (0), a  *)
(* pick-set by the cycle that built it and by whether it has results, a    *)
(* news list by whether it has articles.                                   *)
(***************************************************************************)
\* An empty list and a list with elements.
Sizes == {0, 1}

\* `nowMs - lastSnapshot.at > 30_000`
SNAPSHOT_MAX_AGE == 1
\* `Date.now() - lastSnapshot.at > 60_000`
EOD_SNAPSHOT_MAX_AGE == 2
\* `10 * 60 * 1000`
NEWS_TTL_MS == 20
\* 20 hours
LAST_SESSION_TTL_MS == 2400
OFFHOURS_NEWS_FETCH == TRUE

\* The requests GET /api/picks/today the process receives, the second one
\* not before the first; the EOD job runs once a day.
Reqs == {"r1", "r2"}
Builders == Reqs \cup {"eod"}

\* An IST instant: the day of the week (0 = Sunday) and the half-minutes
\* since midnight.
HalfMinutes(h, m) == (h * 60 + m) * 2
\* The process starts on a Friday at 15:30:30, half a minute before the market
\* closes, or at 15:34:30, half a minute before the EOD job.
BootChoices ==
  {[day |-> 5, hm |-> HalfMinutes(15, 30) + 1], [day |-> 5, hm |-> HalfMinutes(15, 34) + 1]}

\* nowInIST()
NowInIST == [day |-> bootIst.day, hm |-> bootIst.hm + (now - 1)]

\* Mutant of IsMarketOpenIST: the market closes a minute later.
IsMarketOpenUntil1531(d) ==
  IF d.day = 0 \/ d.day = 6 THEN FALSE
  ELSE LET minutes == d.hm \div 2
           open == 9 * 60 + 15
           close == 15 * 60 + 31
       IN minutes >= open /\ minutes <= close
\* isMarketOpenIST(d)
IsMarketOpenIST(d) ==
  IF d.day = 0 \/ d.day = 6 THEN FALSE
  ELSE LET minutes == d.hm \div 2
           open == 9 * 60 + 15
           close == 15 * 60 + 30
       IN minutes >= open /\ minutes <= close

\* cron '35 15 * * 1-5' fires.
EodCronFires == NowInIST.day \in 1 .. 5 /\ NowInIST.hm = HalfMinutes(15, 35)

\* `!lastSnapshot.at || t - lastSnapshot.at > maxAge`
SnapshotStale(t, maxAge) == lastSnapshot.at = 0 \/ t - lastSnapshot.at > maxAge

\* `x.results.length > 0`
HasResults(picks) == picks.n > 0

\* `redisLast && Array.isArray(redisLast.results) && redisLast.results.length > 0`
PersistedHit(v) == v.t = "picks" /\ HasResults(v)

\* `!articles`: an empty array is truthy.
Falsy(v) == v.t = "null" \/ v = JZero

\* The news of a candidate is fetched again: the test of the market-open
\* build, of the EOD job and of the market-closed rebuild.
NewsRefetch(path, articles) ==
  IF path = "live" THEN Falsy(articles)
  ELSE IF path = "eod" THEN Falsy(articles) \/ OFFHOURS_NEWS_FETCH
  ELSE (Falsy(articles) \/ articles.n = 0) /\ OFFHOURS_NEWS_FETCH

\* path is the branch taken ("live": the build of the market-open or forced
\* request, "rebuild", "eod"); status is the HTTP status of the response (0:
\* none yet); served names the source of the pick-set of the response;
\* sawMemory and sawPersisted tell what the market-closed branch found.
\* prev is the previous-session snapshot of the rebuild; classifier tells
\* that the enrichment in progress has posted its batch to Agno.
IdleJob == [pc |-> "idle", path |-> "none", force |-> FALSE, open |-> FALSE, nowMs |-> 0,
            cycle |-> 0, cands |-> 0, status |-> 0, served |-> "none",
            sawMemory |-> FALSE, sawPersisted |-> FALSE, prev |-> <<>>,
            classifier |-> FALSE]

\* topCandidates is known: the news fan-out starts; Promise.all of no
\* promises resolves at once and the enrichment is awaited.
WithCandidates(j, n) == [j EXCEPT !.cands = n, !.pc = IF n = 0 THEN "enrich" ELSE "newsget"]

\* `await buildEnhancedRecommendations(topCandidates, newsMap)` is called with
\* candidates: getAgnoPicks posts the batch when Agno is enabled and the quote
\* and news of a candidate make shouldSendToLLM select it.
Enriching(j) ==
  {[j EXCEPT !.pc = "enrich",
             !.classifier = AGNO_ENABLED
                              /\ ShouldSendToLLM(q[1], q[2], q[3], VaderLabel(q[3]))] :
     q \in ProfileChoices}

\* The pick-set a build assigns to lastSessionPicks.
BuiltPicks(j) == JPicks(j.cycle, j.cands)

\* The call is over and its locals are gone: what is kept is what it was
\* asked, the cycle it was, and what it found and answered.
Ended(j, status, source) ==
  [IdleJob EXCEPT !.pc = "done", !.open = j.open, !.force = j.force, !.cycle = j.cycle,
                  !.sawMemory = j.sawMemory, !.sawPersisted = j.sawPersisted,
                  !.status = status, !.served = source]

\* res.json(...) with a pick-set.
Responded(j, source) == Ended(j, 200, source)

\* The catch of the handler (500 picks_failed) and of the EOD job (logged).
Failed(j) == Ended(j, 500, "none")

\* Mutant of PicksAfterRefresh: the refresh also resets the session pick-set.
PicksResetByRefresh == JPicks(0, 0)
\* refreshSnapshot assigns lastSnapshot and nothing else.
PicksAfterRefresh == lastSessionPicks

\* GET /api/picks/today up to its first await.
PicksCall(r) ==
  /\ job[r].pc = "idle"
  /\ r = "r2" => job["r1"].pc # "idle"
  /\ cycles' = cycles + 1
  /\ \E forceRefresh \in BOOLEAN :
       LET marketOpen == IsMarketOpenIST(NowInIST)
           started == [IdleJob EXCEPT !.force = forceRefresh, !.open = marketOpen,
                                      !.nowMs = now, !.cycle = cycles + 1]
           live == [started EXCEPT !.path = "live"]
       IN IF marketOpen \/ forceRefresh
          THEN IF forceRefresh \/ SnapshotStale(now, SNAPSHOT_MAX_AGE)
               THEN job' = [job EXCEPT ![r] = [live EXCEPT !.pc = "snap"]]
               ELSE job' = [job EXCEPT ![r] = WithCandidates(live, lastSnapshot.cands)]
          ELSE IF HasResults(lastSessionPicks)
               THEN job' = [job EXCEPT ![r] =
                        Responded([started EXCEPT !.sawMemory = TRUE], "memory")]
               ELSE job' = [job EXCEPT ![r] = [started EXCEPT !.pc = "getpersisted"]]
  /\ UNCHANGED <<bootIst, lastSnapshot, lastSessionPicks, timer, memStore, redisStore,
                 exceptOrch>>

\* The EOD cron job up to its first await.
EodCall ==
  /\ job["eod"].pc = "idle"
  /\ EodCronFires
  /\ IF IsMarketOpenIST(NowInIST)
     THEN UNCHANGED <<job, cycles>>
     ELSE LET started == [IdleJob EXCEPT !.path = "eod", !.nowMs = now,
                                         !.cycle = cycles + 1]
          IN /\ cycles' = cycles + 1
             /\ IF SnapshotStale(now, EOD_SNAPSHOT_MAX_AGE)
                THEN job' = [job EXCEPT !["eod"] = [started EXCEPT !.pc = "snap"]]
                ELSE job' = [job EXCEPT !["eod"] =
                         WithCandidates(started, lastSnapshot.cands)]
  /\ UNCHANGED <<bootIst, lastSnapshot, lastSessionPicks, timer, memStore, redisStore,
                 exceptOrch>>

\* `const data = await getSnapshot(); lastSnapshot = { at, data }`: the request
\* stamps the snapshot with its nowMs, the EOD job with Date.now().
SnapshotArrived(b) ==
  /\ job[b].pc = "snap"
  /\ \E n \in Sizes :
       /\ lastSnapshot' = [at |-> IF b = "eod" THEN now ELSE job[b].nowMs, cands |-> n]
       /\ job' = [job EXCEPT ![b] = WithCandidates(job[b], n)]
  /\ UNCHANGED <<bootIst, lastSessionPicks, timer, cycles, memStore, redisStore,
                 exceptOrch>>

\* `let articles = await getCached(key)` of the news fan-out.
NewsLookup(b) ==
  /\ job[b].pc = "newsget"
  /\ \/ /\ StoreGet(NewsKey)
        /\ IF NewsRefetch(job[b].path, GetCachedValue(NewsKey))
           THEN job' = [job EXCEPT ![b].pc = "newsfetch"]
           ELSE \E e \in Enriching(job[b]) : job' = [job EXCEPT ![b] = e]
     \/ /\ StoreThrows
        /\ job' = [job EXCEPT ![b] = Failed(job[b])]
  /\ UNCHANGED <<bootIst, lastSnapshot, lastSessionPicks, timer, cycles, exceptOrch>>

\* `articles = await getNewsForSymbol(row.symbol); await setCached(key, articles, ...)`
NewsFetched(b) ==
  /\ job[b].pc = "newsfetch"
  /\ \/ /\ \E k \in Sizes : StoreSet(NewsKey, JNews(k), NEWS_TTL_MS)
        /\ \E e \in Enriching(job[b]) : job' = [job EXCEPT ![b] = e]
     \/ /\ StoreThrows
        /\ job' = [job EXCEPT ![b] = Failed(job[b])]
  /\ UNCHANGED <<bootIst, lastSnapshot, lastSessionPicks, timer, cycles, exceptOrch>>

\* buildEnhancedRecommendations has resolved: lastSessionPicks is assigned and
\* setCached('last:session:picks', ...) is called.
Publish(b) ==
  /\ job[b].pc = "enrich"
  /\ lastSessionPicks' = BuiltPicks(job[b])
  /\ \/ /\ StoreSet(PicksKey, BuiltPicks(job[b]), LAST_SESSION_TTL_MS)
        /\ job' = [job EXCEPT ![b].pc = "persist", ![b].classifier = FALSE]
     \/ /\ StoreThrows
        /\ job' = [job EXCEPT ![b] = Failed(job[b])]
  /\ UNCHANGED <<bootIst, lastSnapshot, timer, cycles, exceptOrch>>

\* setCached has resolved: the response is sent (the EOD job logs).
Persisted(b) ==
  /\ job[b].pc = "persist"
  /\ job' = [job EXCEPT ![b] = Responded(job[b], job[b].path)]
  /\ UNCHANGED <<bootIst, lastSnapshot, lastSessionPicks, timer, cycles, memStore,
                 redisStore, exceptOrch>>

\* `const redisLast = await getCached('last:session:picks')` of the closed market.
PicksFromPersisted(r) ==
  /\ job[r].pc = "getpersisted"
  /\ \/ /\ StoreGet(PicksKey)
        /\ IF PersistedHit(GetCachedValue(PicksKey))
           THEN /\ lastSessionPicks' = GetCachedValue(PicksKey)
                /\ job' = [job EXCEPT ![r] =
                       Responded([job[r] EXCEPT !.sawPersisted = TRUE], "persisted")]
           ELSE /\ lastSessionPicks' = lastSessionPicks
                /\ job' = [job EXCEPT ![r] = [job[r] EXCEPT !.pc = "prev", !.path = "rebuild"]]
     \/ /\ StoreThrows
        /\ lastSessionPicks' = lastSessionPicks
        /\ job' = [job EXCEPT ![r] = Failed(job[r])]
  /\ UNCHANGED <<bootIst, lastSnapshot, timer, cycles, exceptOrch>>

\* What getPreviousSessionSnapshot may return, which is never empty: a quote
\* that passes primaryFilter, one that moved 5 % on a volume of 50,000, both.
PrevSnapshots ==
  {<<[symbol |-> "A", pct |-> 200, open |-> 100, volume |-> 500000]>>,
   <<[symbol |-> "B", pct |-> 500, open |-> 100, volume |-> 50000]>>,
   <<[symbol |-> "B", pct |-> 500, open |-> 100, volume |-> 50000],
     [symbol |-> "A", pct |-> 200, open |-> 100, volume |-> 500000]>>}

\* `const prev = await getPreviousSessionSnapshot()` and the selection of
\* topCandidates.
PrevArrived(r) ==
  /\ job[r].pc = "prev"
  /\ \E prev \in PrevSnapshots :
       job' = [job EXCEPT ![r] =
                 WithCandidates([job[r] EXCEPT !.prev = prev], Len(TopCandidates(prev)))]
  /\ UNCHANGED <<bootIst, lastSnapshot, lastSessionPicks, timer, cycles, memStore,
                 redisStore, exceptOrch>>

\* The 30 s timer calls refreshSnapshot, which returns at once when the market
\* is closed.
RefreshSnapshot ==
  /\ timer = "idle"
  /\ IsMarketOpenIST(NowInIST)
  /\ timer' = "fetch"
  /\ UNCHANGED <<bootIst, lastSnapshot, lastSessionPicks, job, cycles, memStore,
                 redisStore, exceptOrch>>

\* `lastSnapshot = { at: Date.now(), data }` of refreshSnapshot.
RefreshSnapshotDone ==
  /\ timer = "fetch"
  /\ timer' = "idle"
  /\ \E n \in Sizes : lastSnapshot' = [at |-> now, cands |-> n]
  /\ lastSessionPicks' = PicksAfterRefresh
  /\ UNCHANGED <<bootIst, job, cycles, memStore, redisStore, exceptOrch>>

\* What a process of an earlier day may have left under the pick-set key.
LeftInRedis ==
  {NoRedisEntry,
   [present |-> TRUE, payload |-> JsonStringify(JPicks(0, 1)),
    expireAt |-> LAST_SESSION_TTL_MS]}

OrchInit ==
  /\ bootIst \in BootChoices
  /\ lastSnapshot = [at |-> 0, cands |-> 0]
  /\ lastSessionPicks = JPicks(0, 0)
  /\ job = [b \in Builders |-> IdleJob]
  /\ timer = "idle"
  /\ cycles = 0

\* The process starts: memStore is empty, the Redis server may hold the
\* pick-set of an earlier process.
RestartInit ==
  /\ redis \in BOOLEAN
  /\ useRedis = FALSE
  /\ memStore = [k \in Keys |-> NoEntry]
  /\ redisStore \in {[k \in Keys |-> IF k = PicksKey /\ redis THEN e ELSE NoRedisEntry] :
                      e \in LeftInRedis}
  /\ lastEvent = "none"
  /\ lastSet = [k \in Keys |-> NoSet]
  /\ lastCall = NoCall

(***************************************************************************)
(* backend/src/index.js: the news fan-out of a market-open build,          *)
(* `await Promise.all(topCandidates.map(async (row) => {...}))`, for two   *)
(* candidates.  Promise.all rejects with the first callback that throws    *)
(* and cancels nothing: the other callbacks run on.                        *)
(***************************************************************************)
\* `news:${row.symbol}`
NewsKeyOf(sym) == IF sym = "A" THEN NewsKey ELSE NewsKeyB

\* failed: getNewsForSymbol found every source failing or timing out.
IdleFan == [pc |-> "idle",
            item |-> [sy \in Symbols |-> [pc |-> "idle", articles |-> JNull, failed |-> FALSE]],
            newsMap |-> [sy \in Symbols |-> JNull]]

\* The callback of sym ends with `newsMap[row.symbol] = articles`; the promise
\* is fulfilled with the last callback, unless it was rejected before.
Settled(sym, articles) ==
  [fan EXCEPT !.item[sym].pc = "done", !.item[sym].articles = articles,
              !.newsMap[sym] = articles,
              !.pc = IF @ = "running" /\ \A o \in Symbols \ {sym} : fan.item[o].pc = "done"
                     THEN "resolved" ELSE @]

\* The callback of sym throws: the promise is rejected, and the handler is in
\* its catch.
Rejected(sym) ==
  [fan EXCEPT !.item[sym].pc = "threw", !.pc = IF @ = "running" THEN "rejected" ELSE @]

\* The build reaches the fan-out: every callback runs up to its getCached.
FanOut ==
  /\ fan.pc = "idle"
  /\ fan' = [IdleFan EXCEPT !.pc = "running",
                !.item = [sy \in Symbols |-> [IdleFan.item[sy] EXCEPT !.pc = "getcached"]]]
  /\ UNCHANGED <<memStore, redisStore, exceptFan>>

\* `let articles = await getCached(key); if (!articles) {...}`
ItemLookup(sym) ==
  /\ fan.item[sym].pc = "getcached"
  /\ \/ /\ StoreGet(NewsKeyOf(sym))
        /\ fan' = IF NewsRefetch("live", GetCachedValue(NewsKeyOf(sym)))
                  THEN [fan EXCEPT !.item[sym].pc = "fetch"]
                  ELSE Settled(sym, GetCachedValue(NewsKeyOf(sym)))
     \/ /\ StoreThrows
        /\ fan' = Rejected(sym)
  /\ UNCHANGED exceptFan

\* `articles = await getNewsForSymbol(row.symbol)`, which never throws: it
\* returns articles, or [] when there are none or when its sources fail.
ItemFetched(sym) ==
  /\ fan.item[sym].pc = "fetch"
  /\ \E outcome \in {"articles", "none", "failed"} :
       fan' = [fan EXCEPT !.item[sym].pc = "setcached",
                          !.item[sym].articles = JNews(IF outcome = "articles" THEN 1 ELSE 0),
                          !.item[sym].failed = (outcome = "failed")]
  /\ UNCHANGED <<memStore, redisStore, exceptFan>>

\* `await setCached(key, articles, 10 * 60 * 1000); newsMap[row.symbol] = articles`
ItemStored(sym) ==
  /\ fan.item[sym].pc = "setcached"
  /\ \/ /\ StoreSet(NewsKeyOf(sym), fan.item[sym].articles, NEWS_TTL_MS)
        /\ fan' = Settled(sym, fan.item[sym].articles)
     \/ /\ StoreThrows
        /\ fan' = Rejected(sym)
  /\ UNCHANGED exceptFan

\* Every callback is over and the handler has gone on (to the enrichment, or
\* through its catch).
FanReturn ==
  /\ fan.pc \in {"resolved", "rejected"}
  /\ \A sy \in Symbols : fan.item[sy].pc \in {"done", "threw"}
  /\ fan' = IdleFan
  /\ UNCHANGED <<memStore, redisStore, exceptFan>>

\* No pure function, no getNewsForSymbol call and no fan-out is under way.
QuietInit == probe = IdleProbe /\ NewsInit /\ fan = IdleFan /\ pl = IdlePool

(***************************************************************************)
(* Specifications.                                                         *)
(***************************************************************************)
NextCache ==
  \/ SetCached
  \/ SetCachedThrows
  \/ GetCached
  \/ GetCachedThrows
  \/ RedisError
  \/ RedisReady
  \/ Tick

InitCache ==
  now = 1 /\ CacheInit /\ FeedInit /\ twelveKey /\ AgnoInit /\ AGNO_ENABLED
    /\ OrchInit /\ bootIst.hm = HalfMinutes(15, 30) + 1 /\ QuietInit

\* The cache under its own driver; nothing else runs.
SpecCache == InitCache /\ [][NextCache]_vars

NextFeed ==
  \E c \in Calls :
    \/ FeedCall(c)
    \/ UniverseLive(c)
    \/ UniverseFile(c)
    \/ YahooDone(c)
    \/ NseDone(c)
    \/ TwelveDone(c)
    \/ PrevYahooDone(c)
    \/ FeedReturn(c)

InitFeed ==
  now = 1 /\ CacheInit /\ ~redis /\ FeedInit /\ AgnoInit /\ AGNO_ENABLED
    /\ OrchInit /\ bootIst.hm = HalfMinutes(15, 30) + 1 /\ QuietInit

\* The market feed under overlapping callers.
SpecFeed == InitFeed /\ [][NextFeed]_vars

NextAgno ==
  \/ BuildCall
  \/ AgnoAnswers
  \/ AgnoFails
  \/ AgnoRetry
  \/ BuildReturn

InitAgno ==
  now = 1 /\ CacheInit /\ ~redis /\ FeedInit /\ twelveKey /\ AgnoInit
    /\ OrchInit /\ bootIst.hm = HalfMinutes(15, 30) + 1 /\ QuietInit

\* The recommendation engine and the Agno client, one build at a time.
SpecAgno == InitAgno /\ [][NextAgno]_vars

NextPool ==
  \/ PoolCall
  \/ \E w \in WorkerIds : TaskAnswers(w) \/ TaskFails(w) \/ TaskRetry(w)
  \/ PoolResolve

InitPool ==
  now = 1 /\ CacheInit /\ ~redis /\ FeedInit /\ twelveKey /\ AgnoInit /\ AGNO_ENABLED
    /\ OrchInit /\ bootIst.hm = HalfMinutes(15, 30) + 1 /\ QuietInit

\* One fetchFromYahoo call of getSnapshot: the pool, its workers and the tries
\* of each task.
SpecPool == InitPool /\ [][NextPool]_vars

NextHeuristic ==
  \/ ShouldSendToLLMCall
  \/ TopCandidatesCall
  \/ LlmCandidatesCall

InitHeuristic ==
  now = 1 /\ CacheInit /\ ~redis /\ FeedInit /\ twelveKey /\ AgnoInit /\ AGNO_ENABLED
    /\ OrchInit /\ bootIst.hm = HalfMinutes(15, 30) + 1
    /\ NewsInit /\ fan = IdleFan /\ pl = IdlePool
    /\ \/ \E arg \in HeuristicInputs :
            probe = [fn |-> "shouldSendToLLM", pc |-> "called", arg |-> arg, out |-> FALSE]
       \/ \E data \in SeqsOf(QuoteChoices, 0, MaxRows) :
            probe = [fn |-> "topCandidates", pc |-> "called", arg |-> [data |-> data],
                     out |-> <<>>]
       \/ \E cands \in SeqsOf(CandChoices, 0, MaxBatchInput),
              max \in {1, 2, AGNO_MAX_PER_BATCH} :
            probe = [fn |-> "llmCandidates", pc |-> "called",
                     arg |-> [cands |-> cands, max |-> max], out |-> <<>>]

\* The selection rules of the pipeline (shouldSendToLLM, the choice of the
\* candidates of a build), each called once with each input.
SpecHeuristic == InitHeuristic /\ [][NextHeuristic]_vars

NextNews ==
  \/ NewsCall
  \/ NewsSourceAnswers
  \/ NewsSourceFails
  \/ NewsReturn

InitNews ==
  now = 1 /\ CacheInit /\ ~redis /\ FeedInit /\ twelveKey /\ AgnoInit /\ AGNO_ENABLED
    /\ OrchInit /\ bootIst.hm = HalfMinutes(15, 30) + 1 /\ probe = IdleProbe
    /\ fan = IdleFan /\ pl = IdlePool
    /\ \E key \in BOOLEAN : nf = [IdleNews EXCEPT !.key = key]

\* getNewsForSymbol, one call at a time, with and without NEWSAPI_KEY.
SpecNews == InitNews /\ [][NextNews]_vars

NextFanout ==
  \/ FanOut
  \/ \E sym \in Symbols : ItemLookup(sym) \/ ItemFetched(sym) \/ ItemStored(sym)
  \/ FanReturn
  \/ RedisError
  \/ RedisReady

InitFanout ==
  now = 1 /\ CacheInit /\ FeedInit /\ twelveKey /\ AgnoInit /\ AGNO_ENABLED
    /\ OrchInit /\ bootIst.hm = HalfMinutes(15, 30) + 1 /\ QuietInit

\* The news fan-out of a build over two candidates, with the Redis connection
\* coming and going.
SpecFanout == InitFanout /\ [][NextFanout]_vars

NextOrch ==
  \/ \E r \in {"r1"} :
       PicksCall(r) \/ PicksFromPersisted(r) \/ PrevArrived(r)
  \/ \E b \in {"r1", "eod"} :
       SnapshotArrived(b) \/ NewsLookup(b) \/ NewsFetched(b) \/ Publish(b) \/ Persisted(b)
  \/ EodCall
  \/ RefreshSnapshot
  \/ RefreshSnapshotDone
  \/ RedisError
  \/ RedisReady
  \/ Tick

InitOrch ==
  now = 1 /\ RestartInit /\ FeedInit /\ twelveKey /\ AgnoInit /\ AGNO_ENABLED /\ OrchInit
    /\ QuietInit

\* The orchestrator with one pick-set request at a time, the timer, the EOD
\* job and the Redis connection coming and going.
SpecOrch == InitOrch /\ [][NextOrch]_vars

NextOverlap ==
  \/ \E r \in Reqs :
       \/ PicksCall(r)
       \/ SnapshotArrived(r)
       \/ NewsLookup(r)
       \/ NewsFetched(r)
       \/ Publish(r)
       \/ Persisted(r)
       \/ PicksFromPersisted(r)
       \/ PrevArrived(r)
  \/ RefreshSnapshot
  \/ RefreshSnapshotDone
  \/ Tick

InitOverlap == InitOrch /\ ~redis

\* Two overlapping pick-set requests and the timer, without REDIS_URL.
SpecOverlap == InitOverlap /\ [][NextOverlap]_vars

(***************************************************************************)
(* Claims about the cache, checked under SpecCache.                        *)
(***************************************************************************)
\* C3: round trip.  After setCached(k, v, ttl) with ttl > 0 has returned, and
\* while calls are served by the backend that took it, getCached(k) returns v
\* when no time has passed and miss (null) once more than ttl has passed.
C3_RoundTrip ==
  \A k \in Keys :
    (lastSet[k].done /\ lastSet[k].ttl > 0 /\ lastSet[k].backend = Backend) =>
      /\ (now = lastSet[k].at => GetCachedValue(k) = lastSet[k].v)
      /\ (now > lastSet[k].at + lastSet[k].ttl => GetCachedValue(k) = JNull)

\* A getCached that came after the ttl of a non-null value had passed and
\* returned miss.
C3_Witness ==
  /\ lastCall.op = "get" /\ ~lastCall.threw /\ lastCall.key = PicksKey
  /\ lastSet[PicksKey].done /\ lastSet[PicksKey].ttl > 0
  /\ lastSet[PicksKey].v # JNull
  /\ lastSet[PicksKey].backend = "mem" /\ lastCall.backend = "mem"
  /\ now > lastSet[PicksKey].at + lastSet[PicksKey].ttl
  /\ lastCall.result = JNull
  /\ ~memStore[PicksKey].present

\* C4: a value stored with ttlMs 0 or absent never expires: while calls are
\* served by the backend that took it, getCached(k) returns v at every later
\* time until k is overwritten.
C4_NoTtlNeverExpires ==
  \A k \in Keys :
    (lastSet[k].done /\ lastSet[k].ttl = 0 /\ lastSet[k].backend = Backend) =>
      GetCachedValue(k) = lastSet[k].v

\* C37: a value stored with setCached(k, v, ttl), ttl > 0, and not yet expired
\* is returned by getCached(k) whichever backend is selected at the time of the
\* get, also after the Redis client's 'error' or 'ready' event switched the
\* backend since the set.
C37_ValueSurvivesBackendSwitch ==
  \A k \in Keys :
    (lastSet[k].done /\ lastSet[k].ttl > 0 /\ now < lastSet[k].at + lastSet[k].ttl) =>
      GetCachedValue(k) = lastSet[k].v

\* The same statement for calls served by the backend that took the set.
C37_ValueSurvivesOnSameBackend ==
  \A k \in Keys :
    (lastSet[k].done /\ lastSet[k].ttl > 0 /\ now < lastSet[k].at + lastSet[k].ttl
       /\ lastSet[k].backend = Backend) =>
      GetCachedValue(k) = lastSet[k].v

\* C5: backend selection follows the events of the Redis client.  A call made
\* after 'error' (and before the next 'ready') is served by memStore and
\* never waits on or fails with the Redis client; a call made after 'ready'
\* (and before the next 'error') is served by Redis.
C5_BackendFollowsEvents ==
  /\ (lastCall.op # "none" /\ lastCall.evt = "error") =>
        (lastCall.backend = "mem" /\ ~lastCall.threw)
  /\ (lastCall.op # "none" /\ lastCall.evt = "ready") => lastCall.backend = "redis"

\* A getCached served by memStore after an 'error' although Redis holds the key
\* from before the error.
C5_Witness ==
  /\ lastCall.op = "get" /\ lastCall.evt = "error" /\ lastCall.backend = "mem"
  /\ lastEvent = "error"
  /\ redisStore[PicksKey].present

(***************************************************************************)
(* Claims about the market feed, checked under SpecFeed.                   *)
(***************************************************************************)
RowSources(rows) == {rows[i].src : i \in 1 .. Len(rows)}

\* C1: getSnapshot asks its sources in the order Yahoo, NSE, Twelve Data (only
\* with TWELVEDATA_KEY set), and returns the rows of the first source that
\* gave at least one valid quote: no source is asked after one that gave a
\* quote, the rows returned come from one source only, and the mock rows are
\* returned only when every available source was asked and gave nothing.
C1_FirstSourceWins ==
  \A c \in Calls :
    feed[c].kind = "snapshot" =>
      LET q == feed[c].queried
          ys == feed[c].yields
      IN /\ Len(q) <= Len(SourceOrder)
         /\ q = SubSeq(SourceOrder, 1, Len(q))
         /\ (\E i \in 1 .. Len(q) : q[i] = "twelvedata") => twelveKey
         /\ \A i \in 1 .. Len(ys) : ys[i] > 0 => (i = Len(q) /\ feed[c].pc = "done")
         /\ feed[c].pc = "done" =>
              /\ Len(ys) = Len(q)
              /\ IF ys[Len(q)] > 0
                 THEN RowSources(feed[c].result) = {q[Len(q)]}
                 ELSE /\ RowSources(feed[c].result) = {"mock"}
                      /\ Len(q) = IF twelveKey THEN 3 ELSE 2

\* NSE won after Yahoo gave nothing, and Twelve Data, though configured, was
\* not asked.
C1_Witness ==
  /\ twelveKey
  /\ feed["c1"].kind = "snapshot" /\ feed["c1"].pc = "done"
  /\ feed["c1"].queried = <<"yahoo", "nse">>
  /\ feed["c1"].yields[1] = 0 /\ feed["c1"].yields[2] > 0
  /\ RowSources(feed["c1"].result) = {"nse"}

\* C2: getSnapshot and getPreviousSessionSnapshot never throw and never return
\* an empty list, also when every live source fails or gives no valid quote.
C2_NeverEmpty ==
  \A c \in Calls :
    /\ feed[c].pc # "threw"
    /\ feed[c].pc = "done" => Len(feed[c].result) > 0

\* Every live source of getSnapshot, Twelve Data included, gave nothing and the
\* call returned mock rows for the whole universe.
C2_Witness ==
  /\ feed["c1"].kind = "snapshot" /\ feed["c1"].pc = "done"
  /\ feed["c1"].queried = SourceOrder
  /\ \A i \in 1 .. 3 : feed["c1"].yields[i] = 0
  /\ RowSources(feed["c1"].result) = {"mock"}
  /\ Len(feed["c1"].result) = Len(SYMBOLS_CACHE)

\* C26: the universe is resolved at most once: once SYMBOLS_CACHE is set it is
\* never assigned again, and every call that has its universe has the list
\* every other call has, also when the calls overlap.
C26_UniverseResolvedOnce ==
  [][/\ SYMBOLS_CACHE # <<>> => SYMBOLS_CACHE' = SYMBOLS_CACHE
     /\ \A c, d \in Calls :
          (feed'[c].universe # <<>> /\ feed'[d].universe # <<>>) =>
            feed'[c].universe = feed'[d].universe]_vars

\* C20: no two quotes of a list returned by getSnapshot have the same symbol,
\* whichever source the list comes from.
C20_NoDuplicateSymbols ==
  \A c \in Calls :
    (feed[c].kind = "snapshot" /\ feed[c].pc = "done") =>
      \A i, k \in 1 .. Len(feed[c].result) :
        feed[c].result[i].symbol = feed[c].result[k].symbol => i = k

(***************************************************************************)
(* Claims about the pool and the per-symbol fetch, checked under SpecPool. *)
(***************************************************************************)
\* The positions of items whose task was called and has not returned.
InFlight == {k \in 1 .. Len(pl.items) : pl.runs[k] > 0 /\ ~pl.finished[k]}

\* C33: at no time are more tasks of a pool in flight than its limit, no task
\* is called twice for a position of items, and when the pool has resolved
\* the task of every position was called once and has returned.
C33_PoolBoundedAndComplete ==
  /\ pl.pc # "idle" => Cardinality(InFlight) <= pl.limit
  /\ \A k \in 1 .. MaxPoolItems : pl.runs[k] <= 1
  /\ pl.pc = "resolved" =>
       \A k \in 1 .. Len(pl.items) : pl.runs[k] = 1 /\ pl.finished[k]

\* A pool of limit 2 over three items has two tasks in flight, the third
\* item being taken after the first task returned.
C33_Witness ==
  /\ pl.pc = "running" /\ pl.limit = 2 /\ Len(pl.items) = 3
  /\ pl.finished[1] /\ InFlight = {2, 3}

\* The fetches issued for symbol s, each as a pair of position and try.
RequestsFor(s) ==
  {x \in (1 .. MaxPoolItems) \X (1 .. TRIES) :
     x[1] <= Len(pl.items) /\ pl.items[x[1]] = s /\ x[2] <= pl.requests[x[1]]}

\* C34: within one source fetch a symbol is requested at most TRIES = 2 times;
\* a symbol all of whose requests failed is absent from what the source gave
\* and, when the source wins, from the snapshot returned.
C34_TwoRequestsPerSymbol ==
  \A s \in Symbols :
    /\ Cardinality(RequestsFor(s)) <= TRIES
    /\ (pl.pc = "resolved"
          /\ \A k \in 1 .. Len(pl.items) :
               pl.items[k] = s => pl.fails[k] = pl.requests[k]) =>
         /\ \A i \in 1 .. Len(pl.out) : pl.out[i].symbol # s
         /\ \A i \in 1 .. Len(pl.snapshot) : pl.snapshot[i].symbol # s

(***************************************************************************)
(* Claims about the Agno client and the recommendation engine, checked     *)
(* under SpecAgno.                                                         *)
(***************************************************************************)
\* The row keeps what the VADER pass gave it.
KeepsTier1(row, b) ==
  /\ row.source = "vader"
  /\ row.score = ClampUnit(b.compound)
  /\ row.label = VaderToRec(VaderLabel(b.compound))
  /\ row.slabel = VaderLabel(b.compound)

\* C10: a getAgnoPicks call makes at most 1 + RETRIES attempts; when every
\* attempt fails (error response, transport error or timeout) it returns null
\* after them, and every candidate, the symbols of the batch included, keeps
\* its VADER result with source 'vader'.
C10_RetriesThenTier1 ==
  /\ eng.tries <= 1 + RETRIES
  /\ (eng.pc = "done" /\ eng.tries > 0 /\ eng.oks = 0) =>
        /\ eng.res = NullResult
        /\ Len(eng.out) = Len(eng.base)
        /\ \A i \in 1 .. Len(eng.out) : KeepsTier1(eng.out[i], eng.base[i])

\* Three attempts were made for a batch of one symbol, the last one timed out,
\* and the build returned two rows.
C10_Witness ==
  /\ eng.pc = "done" /\ eng.tries = 1 + RETRIES /\ eng.oks = 0
  /\ metrics.totalFailures = 1 + RETRIES /\ metrics.lastStatus = "timeout"
  /\ Len(eng.batch) = 1 /\ Len(eng.out) = 2
  /\ \E i \in 1 .. 2 : eng.out[i].symbol = eng.batch[1] /\ eng.out[i].source = "vader"

\* C11: when a batch call has used up its RETRIES retries with timeouts,
\* metrics.totalFailures is one more than the call found it (one failure for
\* the batch, whatever its number of symbols) and every symbol of the batch
\* keeps its VADER result.
C11_OneFailurePerBatch ==
  (eng.pc = "done" /\ eng.tries = 1 + RETRIES /\ eng.oks = 0
     /\ metrics.lastStatus = "timeout") =>
    /\ metrics.totalFailures = eng.failures0 + 1
    /\ \A i \in 1 .. Len(eng.out) : KeepsTier1(eng.out[i], eng.base[i])

\* C12: with the feature flag off no attempt of getAgnoPicks is ever started,
\* in any build, and every recommendation of a build keeps its VADER result
\* with source 'vader'.
C12_DisabledSkipsTier2 ==
  ~AGNO_ENABLED =>
    /\ metrics.totalCalls = 0 /\ eng.tries = 0 /\ eng.pc \notin {"fetch", "sleep"}
    /\ eng.pc = "done" =>
         /\ Len(eng.out) = Len(eng.base)
         /\ \A i \in 1 .. Len(eng.out) : KeepsTier1(eng.out[i], eng.base[i])

\* With the flag off a build had a batch of two symbols to escalate and
\* returned both rows.
C12_Witness ==
  /\ ~AGNO_ENABLED /\ eng.pc = "done" /\ metrics.lastStatus = "disabled"
  /\ Len(eng.batch) = 2 /\ Len(eng.out) = 2
  /\ \A i \in 1 .. 2 : eng.out[i].source = "vader"

\* The row holds what the Agno entry a says: its score within [-1, 1], its
\* label as one of BULLISH, WATCH, SKIP, its reason or the generic phrase.
TakesAgno(row, a) ==
  /\ row.source = "agno"
  /\ row.score = (IF a.score = NaN THEN 0
                  ELSE IF a.score > 100 THEN 100 ELSE IF a.score < -100 THEN -100 ELSE a.score)
  /\ row.label = (IF a.label \in {"BULLISH", "SKIP"} THEN a.label ELSE "WATCH")
  /\ row.slabel = (IF a.label = "BULLISH" THEN "Positive"
                   ELSE IF a.label = "SKIP" THEN "Negative" ELSE "Neutral")
  /\ row.reason = (IF a.reason = "" THEN "AI summary" ELSE a.reason)

\* C13: after a batch call that succeeded, the recommendation of every symbol
\* for which the answer has an entry without error holds the score, label
\* and reason of that entry (clamped, normalized, generic phrase for a blank
\* reason) with source 'agno', and its reason is not the one of the VADER
\* pass.
C13_AgnoReplacesTier1 ==
  (eng.pc = "done" /\ eng.oks > 0) =>
    \A i \in 1 .. Len(eng.out) :
      LET a == eng.res.entry[eng.base[i].symbol]
      IN (a # NoEntryFor /\ ~a.error) =>
           /\ eng.out[i].symbol = eng.base[i].symbol
           /\ TakesAgno(eng.out[i], a)
           /\ eng.out[i].reason # GenerateVaderReason(eng.base[i].label, eng.base[i].count)

\* A candidate the VADER pass called Positive (0.50, BULLISH) was answered by
\* Agno with score -2.5, an unknown label and no reason: its recommendation
\* is -1, WATCH, 'AI summary'.
C13_Witness ==
  /\ eng.pc = "done" /\ eng.oks = 1
  /\ \E i \in 1 .. Len(eng.out) :
       /\ eng.base[i].compound = 50 /\ eng.base[i].rec = "BULLISH"
       /\ eng.res.entry[eng.base[i].symbol].score = -250
       /\ eng.out[i].score = -100 /\ eng.out[i].label = "WATCH"
       /\ eng.out[i].reason = "AI summary" /\ eng.out[i].source = "agno"

\* C14: every recommendation buildEnhancedRecommendations returns has its
\* score (sentiment_score and sentiment.compound) within [-1, 1], its
\* sentiment.label among Positive, Negative, Neutral and its sentiment_label
\* among BULLISH, WATCH, SKIP, whether VADER or Agno produced it.
C14_ScoresAndLabelsInRange ==
  eng.pc = "done" =>
    \A i \in 1 .. Len(eng.out) :
      /\ eng.out[i].score \in -100 .. 100
      /\ eng.out[i].slabel \in {"Positive", "Negative", "Neutral"}
      /\ eng.out[i].label \in {"BULLISH", "WATCH", "SKIP"}

\* A build returned two rows: the first scored by Agno with a value that is
\* no number, the second a VADER row or a row Agno scored out of range under
\* an unknown label.
C14_Witness ==
  /\ eng.pc = "done" /\ Len(eng.out) = 2
  /\ eng.out[1].source = "agno" /\ eng.res.entry[eng.out[1].symbol].score = NaN
  /\ eng.out[1].score = 0
  /\ \/ eng.out[2].source = "vader"
     \/ /\ eng.out[2].source = "agno"
        /\ eng.res.entry[eng.out[2].symbol].label = "sell"
        /\ eng.out[2].score = -100

\* C15: with the default thresholds shouldSendToLLM answers true exactly when
\* |pct_change| >= 3.0, or volume >= 1,000,000, or |compound| < 0.20, or the
\* label is Positive with pct_change <= -1.0, or the label is Negative with
\* pct_change >= +1.0; a compound of 0.03 alone is enough.
C15_EscalatedExactlyWhen ==
  (probe.fn = "shouldSendToLLM" /\ probe.pc = "returned") =>
    LET a == probe.arg
        positive == a.compound >= 5
        negative == a.compound <= -5
    IN /\ probe.out <=>
            \/ a.pct >= 300 \/ a.pct <= -300
            \/ a.volume >= 1000000
            \/ (a.compound > -20 /\ a.compound < 20)
            \/ (positive /\ a.pct <= -100)
            \/ (negative /\ a.pct >= 100)
       /\ a.compound = 3 => probe.out

\* A quote that moved 0.99 % on no volume, with a compound of 0.03, was
\* answered true.
C15_Witness ==
  /\ probe.fn = "shouldSendToLLM" /\ probe.pc = "returned"
  /\ probe.arg = [pct |-> 99, volume |-> 0, compound |-> 3]
  /\ probe.out

\* C27: when the answer of a batch call marks the entry of a symbol as an
\* error, the recommendation of that symbol keeps its VADER result, and the
\* recommendation of every symbol with an entry without error still holds
\* what its entry says, with source 'agno'.
C27_ErrorEntryFallsBackAlone ==
  (eng.pc = "done" /\ eng.oks > 0 /\ \E sy \in Symbols : eng.res.entry[sy].error) =>
    \A i \in 1 .. Len(eng.out) :
      LET a == eng.res.entry[eng.base[i].symbol]
      IN /\ a.error =>
              /\ KeepsTier1(eng.out[i], eng.base[i])
              /\ eng.out[i].reason =
                   GenerateVaderReason(eng.base[i].label, eng.base[i].count)
         /\ (a # NoEntryFor /\ ~a.error) => TakesAgno(eng.out[i], a)

\* The answer held an error for A and a BULLISH entry for B: A kept its VADER
\* result and B took the entry.
C27_Witness ==
  /\ eng.pc = "done" /\ eng.oks = 1 /\ Len(eng.out) = 2
  /\ eng.base[1].symbol = "A" /\ eng.base[2].symbol = "B"
  /\ eng.res.entry["A"].error /\ eng.res.entry["B"].label = "BULLISH"
  /\ eng.out[1].source = "vader" /\ eng.out[2].source = "agno"
  /\ eng.out[2].score = 80

\* C30: every attempt of a classifier call adds exactly 1 to totalCalls and
\* every attempt that fails adds exactly 1 to totalFailures; no other step
\* changes them, and totalCalls, totalFailures and totalDuration never
\* decrease.
C30_MetricsCountAttempts ==
  [][LET starts == eng.pc # "fetch" /\ eng'.pc = "fetch"
         fails == eng.pc = "fetch" /\ eng'.pc # "fetch" /\ eng'.oks = eng.oks
     IN /\ metrics'.totalCalls = metrics.totalCalls + (IF starts THEN 1 ELSE 0)
        /\ metrics'.totalFailures = metrics.totalFailures + (IF fails THEN 1 ELSE 0)
        /\ metrics'.totalDuration >= metrics.totalDuration]_vars

\* A call whose first two attempts failed and whose third was answered:
\* three calls and two failures are counted.
C30_Witness ==
  /\ eng.pc = "done" /\ eng.tries = 3 /\ eng.oks = 1
  /\ metrics.totalCalls = 3 /\ metrics.totalFailures = 2

\* C31 as stated: whenever a batch ends without an answer of the classifier
\* (flag off, error responses, retries used up), every recommendation keeps
\* its VADER result and metrics.totalFailures has increased.
C31_UnavailableCountsAsFailure ==
  (eng.pc = "done" /\ eng.batch # <<>> /\ eng.oks = 0) =>
    /\ \A i \in 1 .. Len(eng.out) : KeepsTier1(eng.out[i], eng.base[i])
    /\ metrics.totalFailures > eng.failures0

\* C31, amended: whenever a batch ends without an answer of the classifier,
\* every recommendation keeps its VADER result; with the flag on
\* metrics.totalFailures has increased and lastStatus is 'error' or 'timeout',
\* with the flag off totalFailures is what it was and lastStatus is
\* 'disabled'.
C31_UnavailableKeepsTier1 ==
  (eng.pc = "done" /\ eng.batch # <<>> /\ eng.oks = 0) =>
    /\ \A i \in 1 .. Len(eng.out) : KeepsTier1(eng.out[i], eng.base[i])
    /\ IF AGNO_ENABLED
       THEN metrics.totalFailures > eng.failures0
              /\ metrics.lastStatus \in {"error", "timeout"}
       ELSE metrics.totalFailures = eng.failures0 /\ metrics.lastStatus = "disabled"

\* With the flag off a build with one symbol to escalate among two
\* candidates ended with both VADER results and no failure counted.
C31_Witness ==
  /\ ~AGNO_ENABLED /\ eng.pc = "done" /\ Len(eng.batch) = 1 /\ Len(eng.out) = 2
  /\ metrics.lastStatus = "disabled" /\ metrics.totalFailures = 0
  /\ \A i \in 1 .. 2 : eng.out[i].source = "vader"

\* C38: a candidate whose symbol was not sent in the escalation batch ends
\* with its VADER result and source 'vader', whatever entries the answer of
\* the classifier holds.
C38_OnlyBatchSymbolsTakeAgno ==
  eng.pc = "done" =>
    \A i \in 1 .. Len(eng.out) :
      (\A k \in 1 .. Len(eng.batch) : eng.batch[k] # eng.base[i].symbol) =>
        KeepsTier1(eng.out[i], eng.base[i])

\* C40: buildEnhancedRecommendations returns one recommendation per
\* candidate, in the order of the candidates, each with the symbol, open,
\* last price, percent change and volume of its candidate, whether the
\* classifier was not called, answered, or failed on every attempt.
C40_OneRowPerCandidateInOrder ==
  eng.pc = "done" =>
    /\ Len(eng.out) = Len(eng.base)
    /\ \A i \in 1 .. Len(eng.out) :
         /\ eng.out[i].symbol = eng.base[i].symbol
         /\ eng.out[i].open = eng.base[i].open
         /\ eng.out[i].ltp = eng.base[i].ltp
         /\ eng.out[i].pct = eng.base[i].pct
         /\ eng.out[i].volume = eng.base[i].volume

\* The candidates were A, then B with the higher priority; the classifier
\* answered for B only, and the build returned A's row, then B's.
C40_Witness ==
  /\ eng.pc = "done" /\ eng.oks = 1 /\ Len(eng.out) = 2
  /\ eng.base[1].symbol = "A" /\ eng.base[2].symbol = "B"
  /\ eng.base[1].priority < eng.base[2].priority
  /\ eng.batch = <<"B">>
  /\ eng.out[1].symbol = "A" /\ eng.out[1].source = "vader" /\ eng.out[1].open = 100
  /\ eng.out[2].symbol = "B" /\ eng.out[2].source = "agno" /\ eng.out[2].open = 200

\* The same candidates when every attempt of the classifier call failed.
C40_WitnessFailed ==
  /\ eng.pc = "done" /\ eng.oks = 0 /\ eng.tries = 1 + RETRIES /\ Len(eng.out) = 2
  /\ eng.base[1].symbol = "A" /\ eng.base[2].symbol = "B"
  /\ eng.out[1].symbol = "A" /\ eng.out[2].symbol = "B"
  /\ eng.out[1].source = "vader" /\ eng.out[2].source = "vader"

\* C21: in the results of a pick-set, which are the recommendations
\* buildEnhancedRecommendations returns for the candidates of the build, each
\* symbol occurs at most once.
C21_SymbolsUniqueInResults ==
  eng.pc = "done" =>
    \A i, k \in 1 .. Len(eng.out) : eng.out[i].symbol = eng.out[k].symbol => i = k

\* C29: the batch of a build holds only candidates shouldSendToLLM selected,
\* each at most as often as the candidates hold it, and at most
\* AGNO_MAX_PER_BATCH of them; a selected candidate is left out only of a full
\* batch, and then its priority is at most that of every candidate of the
\* batch.
C29_BatchIsTopPriority ==
  (probe.fn = "llmCandidates" /\ probe.pc = "returned") =>
    LET base == BaseRows(probe.arg.cands)
        batch == probe.out
        inBatch(r) == Cardinality({i \in 1 .. Len(batch) : batch[i] = r})
        inBase(r) == Cardinality({k \in 1 .. Len(base) : base[k] = r})
    IN /\ Len(batch) <= probe.arg.max
       /\ \A i \in 1 .. Len(batch) :
            batch[i].needsLLM /\ inBatch(batch[i]) <= inBase(batch[i])
       /\ \A k \in 1 .. Len(base) :
            (base[k].needsLLM /\ inBatch(base[k]) < inBase(base[k])) =>
              /\ Len(batch) = probe.arg.max
              /\ \A i \in 1 .. Len(batch) : base[k].priority <= batch[i].priority

\* Of three selected candidates and a batch size of 2, the first, of lower
\* priority than the others, was left out.
C29_Witness ==
  /\ probe.fn = "llmCandidates" /\ probe.pc = "returned"
  /\ probe.arg.max = 2 /\ Len(probe.arg.cands) = 3 /\ Len(probe.out) = 2
  /\ \A k \in 1 .. 3 : BaseRow(probe.arg.cands[k]).needsLLM
  /\ \A i \in 1 .. 2 : BaseRow(probe.arg.cands[1]).priority < probe.out[i].priority

\* C32: at most TOP_N candidates are enriched, each a quote of the snapshot
\* taken at most as often as the snapshot holds it; a quote that passes the
\* filter is left out only when TOP_N are taken, and then its pct_change is at
\* most that of every candidate taken.
C32_TopNByPctChange ==
  (probe.fn = "topCandidates" /\ probe.pc = "returned") =>
    LET data == probe.arg.data
        top == probe.out
        inTop(q) == Cardinality({i \in 1 .. Len(top) : top[i] = q})
        inData(q) == Cardinality({j \in 1 .. Len(data) : data[j] = q})
        passes(q) == /\ q.pct # NaN /\ q.open # NaN /\ q.volume # NaN
                     /\ q.pct >= 100 /\ q.pct <= 300 /\ q.open > 50
                     /\ q.volume >= 100000
    IN /\ Len(top) <= TOP_N
       /\ \A i \in 1 .. Len(top) : inTop(top[i]) <= inData(top[i])
       /\ \A j \in 1 .. Len(data) :
            (passes(data[j]) /\ inTop(data[j]) < inData(data[j])) =>
              /\ Len(top) = TOP_N
              /\ \A i \in 1 .. Len(top) : data[j].pct <= top[i].pct

\* Of three quotes that pass the filter, in ascending order of pct_change,
\* the last two were taken, the highest first.
C32_Witness ==
  /\ probe.fn = "topCandidates" /\ probe.pc = "returned"
  /\ Len(probe.arg.data) = 3 /\ Len(probe.out) = TOP_N
  /\ probe.arg.data[1].pct = 100 /\ probe.arg.data[2].pct = 200
  /\ probe.arg.data[3].pct = 300
  /\ probe.out[1].pct = 300 /\ probe.out[2].pct = 200

C16_FirstSourceWinsNews ==
  LET first == IF nf.key THEN 1 ELSE 2
      n == Len(nf.asked)
  IN /\ n <= 6 - first
     /\ \A i \in 1 .. n : nf.asked[i] = NewsSources[first + i - 1]
     /\ \A i \in 1 .. Len(nf.outcomes) :
          nf.outcomes[i] = "articles" => (i = n /\ nf.pc = "done")
     /\ nf.pc = "done" =>
          /\ Len(nf.outcomes) = n
          /\ nf.result # <<>> <=> nf.outcomes[n] = "articles"
          /\ \A k \in 1 .. Len(nf.result) : nf.result[k].source = nf.asked[n]
          /\ nf.result = <<>> => n = 6 - first

\* With a key, NewsAPI had nothing fresh, Google News failed and Yahoo
\* Finance gave the two articles that were returned; Economic Times and Bing
\* News were not asked.
C16_Witness ==
  /\ nf.key /\ nf.pc = "done"
  /\ nf.asked = <<"NewsAPI", "Google News", "Yahoo Finance">>
  /\ nf.outcomes = <<"empty", "error", "articles">>
  /\ Len(nf.result) = 2
  /\ \A k \in 1 .. 2 : nf.result[k].source = "Yahoo Finance"

\* C17: getNewsForSymbol never throws: after the error of a source the next
\* source is asked, and a call in which every source failed or had nothing
\* returns the empty list.
C17_NewsNeverThrows ==
  /\ nf.pc \in {"idle", "fetch", "done"}
  /\ \A i \in 1 .. Len(nf.outcomes) :
       nf.outcomes[i] = "error" =>
         \/ i < Len(nf.asked)
         \/ nf.pc = "done" /\ nf.asked[i] = "Bing News" /\ nf.result = <<>>
  /\ (nf.pc = "done" /\ \A i \in 1 .. Len(nf.outcomes) : nf.outcomes[i] # "articles") =>
       nf.result = <<>>

\* Every source, NewsAPI included, failed and the call returned the empty
\* list.
C17_Witness ==
  /\ nf.key /\ nf.pc = "done" /\ nf.result = <<>>
  /\ Len(nf.asked) = 5
  /\ nf.outcomes = <<"error", "error", "error", "error", "error">>

\* C22: no two articles of a result of getNewsForSymbol have the same title
\* once trimmed and lower-cased, and of the items of the answer that pass the
\* filter and share such a title the first one is the article returned.
C22_OneArticlePerTitle ==
  nf.pc = "done" =>
    \A i \in 1 .. Len(nf.result) :
      LET key == ToLowerCase(Trim(nf.result[i].title))
          same == {j \in 1 .. Len(nf.raw) :
                     /\ ToLowerCase(Trim(nf.raw[j].title)) = key
                     /\ KeepsItem(NormalizeItem(nf.raw[j]), nf.result[i].source)}
          first == CHOOSE j \in same : \A o \in same : j <= o
      IN /\ \A k \in 1 .. Len(nf.result) :
              ToLowerCase(Trim(nf.result[k].title)) = key => k = i
         /\ same # {}
         /\ nf.result[i].url = nf.raw[first].url
         /\ nf.result[i].age = nf.raw[first].age

\* A source answered with the same headline twice, the second time in capitals
\* and younger: the one article returned is the first.
C22_Witness ==
  /\ nf.pc = "done" /\ Len(nf.raw) = 2 /\ Len(nf.result) = 1
  /\ nf.raw[1].title = "Profit up" /\ nf.raw[2].title = "PROFIT UP"
  /\ nf.raw[1].age = 2 /\ nf.raw[2].age = 1
  /\ nf.result[1].title = "Profit up" /\ nf.result[1].age = 2

(***************************************************************************)
(* Claims about the orchestrator, checked under SpecOrch and SpecOverlap.  *)
(***************************************************************************)
\* The response came from the first source, in the order memory, persisted,
\* rebuild, that had a pick-set.
ServedInPriority(j) ==
  \/ j.served = "memory" /\ j.sawMemory
  \/ j.served = "persisted" /\ ~j.sawMemory /\ j.sawPersisted
  \/ j.served = "rebuild" /\ ~j.sawMemory /\ ~j.sawPersisted

\* C6: while the market is closed, a pick-set request that is answered with a
\* pick-set is served from the in-memory pick-set, else from the persisted
\* one, else from a rebuild of the previous session; a lower source is used
\* only when every higher one has no pick-set.
C6_ClosedServedInPriority ==
  \A r \in Reqs :
    (job[r].pc = "done" /\ job[r].status = 200 /\ ~job[r].open) => ServedInPriority(job[r])

\* C7: when a market-open request that has built a pick-set completes, the
\* in-memory value and the value persisted under the pick-set key are that
\* pick-set.
C7_OpenBuildBecomesCurrent ==
  [][\A r \in Reqs :
       (job[r].open /\ job[r].pc \in {"enrich", "persist"} /\ job'[r].pc = "done") =>
         /\ lastSessionPicks' = BuiltPicks(job[r])
         /\ GetCachedValue(PicksKey)' = BuiltPicks(job[r])]_vars

\* C24: the EOD job that runs after the close fetches the news of its
\* candidates anew whatever the cache holds, and when buildEnhancedRecommendations
\* has resolved, its pick-set is the in-memory pick-set and the value persisted
\* under the pick-set key, with an expiry of at least 20 hours from now.
C24_EodRebuildsAndPersists ==
  [][LET j == job["eod"]
         left(pc) == j.pc = pc /\ job'["eod"].pc # pc
     IN /\ left("newsget") => job'["eod"].pc = "newsfetch"
        /\ left("newsfetch") => job'["eod"].pc = "enrich"
        /\ left("enrich") =>
             /\ lastSessionPicks' = BuiltPicks(j)
             /\ GetCachedValue(PicksKey)' = BuiltPicks(j)
             /\ (IF ServedByRedis THEN redisStore'[PicksKey].expireAt
                  ELSE memStore'[PicksKey].expiresAt) >= now + LAST_SESSION_TTL_MS]_vars

C28_NoClassifierCallWhenClosed ==
  \A b \in Builders :
    (job[b].path \in {"eod", "rebuild"} /\ job[b].pc = "enrich") => ~job[b].classifier

C36_ClosedNeverTakesOpenPath ==
  \A r \in Reqs :
    (job[r].pc # "idle" /\ ~job[r].open) =>
      job[r].path # "live" /\ job[r].served # "live"

\* C39: the timestamp of the shared snapshot never decreases, whichever of the
\* timer refresh, the end-of-day job and the request handlers assigns it.
C39_SnapshotStampNeverDecreases ==
  [][lastSnapshot'.at >= lastSnapshot.at]_vars

\* C18: no pick-set build (market-open request, market-closed rebuild, EOD
\* job) is aborted by the exception of a component: a request or job that has
\* ended has ended with its result, also when Redis became unreachable during
\* one of its setCached or getCached calls.
C18_NoBuildAborted ==
  \A b \in Builders : job[b].pc = "done" => job[b].status = 200

\* C19: in the news fan-out of a build, the failure of one item (its fetch, or
\* a cache call of its callback) does not discard the work of a sibling: a
\* sibling that ran to completion has its articles used by the build.
C19_SiblingsSurvive ==
  \A sy, o \in Symbols :
    (sy # o /\ (fan.item[sy].failed \/ fan.item[sy].pc = "threw") /\ fan.item[o].pc = "done") =>
      /\ fan.pc \in {"running", "resolved"}
      /\ fan.newsMap[o] = fan.item[o].articles

\* The build of b has published its pick-set and is over.
HasPublished(b) ==
  job[b].pc = "done" /\ job[b].status = 200 /\ job[b].served \in {"live", "rebuild", "eod"}

\* C8: after two builds have both completed, the current pick-set is the one
\* of the newer cycle: the older cycle does not overwrite it by completing
\* last.
C8_NewerCycleWins ==
  \A a, b \in Builders :
    (HasPublished(a) /\ HasPublished(b) /\ job[a].cycle < job[b].cycle) =>
      lastSessionPicks.c >= job[b].cycle

\* C9 as stated: a step that changes lastSessionPicks is a step of the timer
\* refresh or of the EOD job.
C9_OnlyTimerAndEodWrite ==
  [][lastSessionPicks' # lastSessionPicks =>
       (timer' # timer \/ job'["eod"] # job["eod"])]_vars

\* C9, amended: a step that changes lastSessionPicks is a step of GET
\* /api/picks/today (the end of its build or of its rebuild, or its read of
\* the persisted pick-set) or the end of the build of the EOD job; the timer
\* refresh never changes it.
C9_OnlyPicksHandlerAndEodWrite ==
  [][lastSessionPicks' # lastSessionPicks =>
       /\ timer' = timer
       /\ \E b \in Builders :
            /\ job'[b] # job[b]
            /\ job[b].pc = "enrich" \/ (b \in Reqs /\ job[b].pc = "getpersisted")]_vars

\* A market-open request has assigned the pick-set it built, and a timer
\* refresh that ended after the request began has left it in place.
C9_Witness ==
  \E r \in Reqs :
    /\ job[r].pc = "persist" /\ job[r].path = "live" /\ job[r].open
    /\ lastSessionPicks = BuiltPicks(job[r]) /\ HasResults(lastSessionPicks)
    /\ timer = "idle" /\ lastSnapshot.at > job[r].nowMs

====
